---------------------------- MODULE Spec2Model ----------------------------
(***************************************************************************)
(* LinkPub: EPUB building (front end and API), XML escaping and file-name  *)
(* sanitizing.                                                             *)
(*                                                                         *)
(* Text is a sequence of one-character strings.  A JavaScript value is a   *)
(* record [t, s]: t is its typeof-like tag ("string", "number",            *)
(* "undefined", "null") and s its text (String(v) for a number).           *)
(***************************************************************************)
EXTENDS Naturals, Sequences, FiniteSets, TLC

VARIABLES
    text, escFn, escOut,              \* escaping: argument, function applied, result
    filename, fnFn, fnOut,            \* file names: title, function applied, result
    articles, title, author, description,   \* arguments of a build
    zip, variant, outcome,            \* the archive built, by which builder, how it ended
    thisArticles, articlesContainer,  \* collection tab: this.articles, the article items shown
    extracting,                       \* calls of addArticleToCollection awaiting extractArticle
    bulkUrls, bulkAwaits,             \* processBulkUrls: URLs still to add, the add it awaits
    nextId,                           \* ids that generateUUID has handed to article items
    out,                              \* the file or request body that the last handler of the
                                      \* collection tab produced
    started,                          \* server: initializeApp has run, the server listens
    usersFile, history,               \* users.json, the urls of converted_urls.json
    sessions,                         \* session store: the user of each client's session
    inflight,                         \* requests between two awaits of their handler
    res,                              \* the last request handled and its response
    loggedIn,                         \* the client's last login succeeded and no logout followed
    freshInstall,                     \* initializeApp found no users.json
    extractPc, extractUrl,            \* POST /api/extract: where the handler is, its url
    extractI, lastError,              \* the loop's i and lastError
    attempts,                         \* the fetches made, with user agent and outcome
    responses,                        \* the responses sent
    tracking,                         \* how the write of the history ended
    clock,                            \* the time that new Date() last gave
    lastCall,                         \* the last call that changed the history
    workers,                          \* calls between their read and their write of the file
    epubsDir,                         \* the files below epubs/, by path
    libClock,                         \* the time of the last write below epubs/
    libRes,                           \* the last library request and its response
    themeOf,                          \* the theme of each user's record in users.json
    themeSessions,                    \* the user id and theme of each client's session
    themeRes                          \* the last theme request and its response

vars == <<text, escFn, escOut, filename, fnFn, fnOut,
          articles, title, author, description, zip, variant, outcome,
          thisArticles, articlesContainer, extracting, bulkUrls, bulkAwaits,
          nextId, out,
          started, usersFile, history, sessions, inflight, res, loggedIn,
          freshInstall,
          extractPc, extractUrl, extractI, lastError, attempts, responses,
          tracking, clock, lastCall, workers,
          epubsDir, libClock, libRes, themeOf, themeSessions, themeRes>>

escVars == <<text, escFn, escOut>>
fnVars == <<filename, fnFn, fnOut>>
buildVars == <<articles, title, author, description, zip, variant, outcome>>
collVars == <<thisArticles, articlesContainer, extracting, bulkUrls, bulkAwaits,
              nextId, out>>
srvVars == <<started, usersFile, history, sessions, inflight, res, loggedIn,
             freshInstall>>
extVars == <<extractPc, extractUrl, extractI, lastError, attempts, responses,
             tracking>>
histVars == <<clock, lastCall, workers>>
libVars == <<epubsDir, libClock, libRes>>
themeVars == <<themeOf, themeSessions, themeRes>>
reqVars == <<extVars, histVars, libVars, themeVars>>
notExtVars == <<escVars, fnVars, buildVars, collVars, srvVars, histVars, libVars,
                themeVars>>
notLibVars == <<escVars, fnVars, buildVars, collVars, srvVars, extVars, histVars,
                themeVars>>
notThemeVars == <<escVars, fnVars, buildVars, collVars, srvVars, extVars, histVars,
                  libVars>>

---------------------------------------------------------------------------
(* Bounds *)

MaxLen == 2          \* longest enumerated text
MaxArticles == 2     \* longest enumerated article list

---------------------------------------------------------------------------
(* JavaScript values and text *)

Str(s) == [t |-> "string", s |-> s]
Undefined == [t |-> "undefined", s |-> <<>>]
Null == [t |-> "null", s |-> <<>>]
Num(s) == [t |-> "number", s |-> s]

NBSP == "U+00A0"

\* !text: undefined, null, the empty string (and the number 0) are falsy
Falsy(v) ==
    \/ v.t \in {"undefined", "null"}
    \/ v.t = "string" /\ v.s = <<>>
    \/ v.t = "number" /\ v.s = <<"0">>

SeqsUpTo(S, n) == UNION {[1..k -> S] : k \in 0..n}

RECURSIVE ReplaceAll(_, _, _)
\* String.prototype.replace(/c/g, rep)
ReplaceAll(s, c, rep) ==
    IF s = <<>> THEN <<>>
    ELSE (IF Head(s) = c THEN rep ELSE <<Head(s)>>) \o ReplaceAll(Tail(s), c, rep)

AMP == <<"&", "a", "m", "p", ";">>
LT == <<"&", "l", "t", ";">>
GT == <<"&", "g", "t", ";">>
QUOT == <<"&", "q", "u", "o", "t", ";">>
APOS == <<"&", "a", "p", "o", "s", ";">>
NBSPENT == <<"&", "n", "b", "s", "p", ";">>

\* server.js escapeXml
escapeXml(v) ==
    IF Falsy(v) \/ v.t # "string" THEN <<>>
    ELSE ReplaceAll(ReplaceAll(ReplaceAll(ReplaceAll(ReplaceAll(v.s,
            "&", AMP), "<", LT), ">", GT), "\"", QUOT), "'", APOS)

\* div.textContent = text; div.innerHTML: the HTML serialisation of a text
\* node (not in attribute mode): &, U+00A0, <, > are replaced, quotes are not
innerHTML(s) ==
    ReplaceAll(ReplaceAll(ReplaceAll(ReplaceAll(s,
        "&", AMP), NBSP, NBSPENT), "<", LT), ">", GT)

\* textContent = v: null and undefined give the empty text, anything else String(v)
textContent(v) == IF v.t \in {"undefined", "null"} THEN <<>> ELSE v.s

\* front end (current) escapeHtml
escapeHtml(v) ==
    IF Falsy(v) \/ v.t # "string" THEN <<>>
    ELSE innerHTML(textContent(v))

\* front end (earlier copies) escapeHtml: no guard
escapeHtmlUnguarded(v) == innerHTML(textContent(v))

---------------------------------------------------------------------------
(* Escaping, applied to enumerated arguments *)

EscChars == {"a", "&", "<", ">", "\"", "'", NBSP}

EscInputs ==
    {Str(s) : s \in SeqsUpTo(EscChars, MaxLen)} \cup {Undefined, Null, Num(<<"7">>)}

EscapeInit ==
    /\ text \in EscInputs
    /\ escFn = "none"
    /\ escOut = <<>>

EscapeXml ==
    /\ escFn' = "escapeXml"
    /\ escOut' = escapeXml(text)
    /\ UNCHANGED <<text, fnVars, buildVars, collVars, srvVars, reqVars>>

EscapeHtml ==
    /\ escFn' = "escapeHtml"
    /\ escOut' = escapeHtml(text)
    /\ UNCHANGED <<text, fnVars, buildVars, collVars, srvVars, reqVars>>

EscapeHtmlUnguarded ==
    /\ escFn' = "escapeHtmlUnguarded"
    /\ escOut' = escapeHtmlUnguarded(text)
    /\ UNCHANGED <<text, fnVars, buildVars, collVars, srvVars, reqVars>>

---------------------------------------------------------------------------
(* File names *)

MaxFilenameLen == 50

LowerCase == {"a", "b"}
UpperCase == {"A", "B"}
Digits == {"0", "1"}
Whitespace == {" ", NBSP}

Min(a, b) == IF a < b THEN a ELSE b

\* /[^a-z0-9\s-_]/gi matches every character that is none of these
AllowedInName(c) == c \in LowerCase \cup UpperCase \cup Digits \cup Whitespace \cup {"-", "_"}

RECURSIVE StripDisallowed(_)
\* .replace(/[^a-z0-9\s-_]/gi, '')
StripDisallowed(s) ==
    IF s = <<>> THEN <<>>
    ELSE (IF AllowedInName(Head(s)) THEN <<Head(s)>> ELSE <<>>) \o StripDisallowed(Tail(s))

RECURSIVE DropLeadingWs(_)
DropLeadingWs(s) ==
    IF s # <<>> /\ Head(s) \in Whitespace THEN DropLeadingWs(Tail(s)) ELSE s

RECURSIVE CollapseWs(_)
\* .replace(/\s+/g, '_')
CollapseWs(s) ==
    IF s = <<>> THEN <<>>
    ELSE IF Head(s) \in Whitespace THEN <<"_">> \o CollapseWs(DropLeadingWs(s))
    ELSE <<Head(s)>> \o CollapseWs(Tail(s))

toLowerCase(s) ==
    [i \in 1..Len(s) |-> IF s[i] = "A" THEN "a" ELSE IF s[i] = "B" THEN "b" ELSE s[i]]

\* .substring(0, n)
substring0(s, n) == SubSeq(s, 1, Min(n, Len(s)))

\* front end sanitizeFilename
sanitizeFilename(s) ==
    substring0(toLowerCase(CollapseWs(StripDisallowed(s))), MaxFilenameLen)

\* POST /api/epubs/save: safeTitle
safeTitle(s) ==
    substring0(CollapseWs(StripDisallowed(s)), MaxFilenameLen)

FnChars == {"a", "B", "1", " ", "-", "_", "!", "/"}
PadLens == {0, MaxFilenameLen - 1, MaxFilenameLen}

\* a title: a short text followed by a run of one letter, to reach the length limit
FnInputs == {p \o [i \in 1..n |-> "a"] : p \in SeqsUpTo(FnChars, MaxLen), n \in PadLens}

FilenameInit ==
    /\ filename \in FnInputs
    /\ fnFn = "none"
    /\ fnOut = <<>>

\* handleDownload: the file is offered as `${this.sanitizeFilename(title)}.epub`
DownloadName ==
    /\ filename # <<>>        \* an extracted article always has a title
    /\ fnFn' = "sanitizeFilename"
    /\ fnOut' = sanitizeFilename(filename)
    /\ UNCHANGED <<filename, escVars, buildVars, collVars, srvVars, reqVars>>

\* POST /api/epubs/save: 400 without a title, else the file is stored as safeTitle + '.epub'
SaveName ==
    /\ IF Falsy(Str(filename))
       THEN fnFn' = "save400" /\ fnOut' = <<>>
       ELSE fnFn' = "save" /\ fnOut' = safeTitle(filename)
    /\ UNCHANGED <<filename, escVars, buildVars, collVars, srvVars, reqVars>>

---------------------------------------------------------------------------
(* JSZip: an archive is the sequence of its entries, in insertion order *)

HasEntry(z, name) == \E i \in DOMAIN z : z[i].name = name
EntryIndex(z, name) == CHOOSE i \in DOMAIN z : z[i].name = name

\* zip.file(name, data): a new name is appended, a known name keeps its place
ZipFile(z, name, doc) ==
    IF HasEntry(z, name)
    THEN [z EXCEPT ![EntryIndex(z, name)] = [name |-> name, dir |-> FALSE, doc |-> doc]]
    ELSE Append(z, [name |-> name, dir |-> FALSE, doc |-> doc])

\* zip.folder(name): adds the directory entry name/ when it is new
ZipFolder(z, name) ==
    IF HasEntry(z, name \o "/") THEN z
    ELSE Append(z, [name |-> name \o "/", dir |-> TRUE, doc |-> [kind |-> "dir"]])

\* zip.generateAsync({type}): no compression option given, every entry is
\* written in insertion order with JSZip's default method, STORE
GenerateAsync(z) ==
    [i \in DOMAIN z |-> [name |-> z[i].name, dir |-> z[i].dir,
                         compression |-> "STORE", doc |-> z[i].doc]]

---------------------------------------------------------------------------
(* The documents of an EPUB.  Markup text is a sequence of pieces: a       *)
(* literal of the template is one piece, inserted text one piece per       *)
(* character.                                                              *)

MimetypeDoc == [kind |-> "mimetype", data |-> "application/epub+zip"]
ContainerDoc == [kind |-> "container", rootfile |-> "OEBPS/content.opf"]
NcxItem == [id |-> "ncx", href |-> "toc.ncx"]

ChapterId(i) == "chapter" \o ToString(i)
ChapterHref(i) == "chapter" \o ToString(i) \o ".html"

\* manifest ids numbered from the index, not from index + 1
ChapterItemsFromZero(as) ==
    [i \in 1..Len(as) |-> [id |-> "chapter" \o ToString(i - 1), href |-> ChapterHref(i)]]

\* articles.map((article, index) => `<item id="chapter${index + 1}" href="chapter${index + 1}.html" .../>`)
ChapterItems(as) == [i \in 1..Len(as) |-> [id |-> ChapterId(i), href |-> ChapterHref(i)]]

\* articles.map((article, index) => `<itemref idref="chapter${index + 1}"/>`)
ChapterRefs(as) == [i \in 1..Len(as) |-> ChapterId(i)]

\* the folders created before the mimetype entry
ZipSkeletonFolderFirst ==
    ZipFolder(ZipFile(ZipFile(ZipFolder(<<>>, "META-INF"), "mimetype", MimetypeDoc),
                      "META-INF/container.xml", ContainerDoc), "OEBPS")

\* zip.file('mimetype', ...); zip.folder('META-INF'); metaInf.file('container.xml', ...);
\* zip.folder('OEBPS')
ZipSkeleton ==
    ZipFolder(ZipFile(ZipFolder(ZipFile(<<>>, "mimetype", MimetypeDoc), "META-INF"),
                      "META-INF/container.xml", ContainerDoc), "OEBPS")

RECURSIVE AddFilesButLast(_, _, _)
\* a loop that stops one article early
AddFilesButLast(z, docs, i) ==
    IF i >= Len(docs) THEN z
    ELSE AddFilesButLast(ZipFile(z, "OEBPS/" \o ChapterHref(i), docs[i]), docs, i + 1)

\* articles.forEach((article, index) => oebps.file(`chapter${index + 1}.html`, ...))
\* the archive after ZipFile(_, "OEBPS/chapterK.html", docs[K]) for K = i..Len(docs):
\* the chapter names differ from one another, so a known name keeps its place
\* with the new document and the new names are appended in the order of K
AddFiles(z, docs, i) ==
    LET NameOf(k) == "OEBPS/" \o ChapterHref(k)
        FileOfDoc(k) == [name |-> NameOf(k), dir |-> FALSE, doc |-> docs[k]]
        kept == [j \in DOMAIN z |->
                    IF \E k \in i..Len(docs) : NameOf(k) = z[j].name
                    THEN FileOfDoc(CHOOSE k \in i..Len(docs) : NameOf(k) = z[j].name)
                    ELSE z[j]]
        order == [k \in 1..(IF Len(docs) < i THEN 0 ELSE Len(docs) - i + 1) |-> k + i - 1]
        New(k) == ~HasEntry(z, NameOf(k))
        fresh == SelectSeq(order, New)
    IN  kept \o [n \in 1..Len(fresh) |-> FileOfDoc(fresh[n])]

---------------------------------------------------------------------------
(* generateEpub: one article *)

SingleChapterDoc(article) ==
    [kind |-> "chapter",
     label |-> <<>>,
     headTitle |-> escapeHtml(article.title),
     h1 |-> escapeHtml(article.title),
     meta |-> << <<"Source: ">> \o escapeHtml(article.siteName) >>,
     body |-> article.content]

generateEpub(article, uuid1, uuid2) ==
    LET opf == [kind |-> "opf",
                identifier |-> uuid1,
                title |-> escapeHtml(article.title),
                creator |-> <<"LinkPub">>,
                source |-> escapeHtml(article.siteName),
                manifest |-> <<NcxItem, [id |-> "content", href |-> "content.html"]>>,
                spine |-> <<"content">>]
        ncx == [kind |-> "ncx",
                uid |-> uuid2,
                totalPageCount |-> 0,
                docTitle |-> escapeHtml(article.title),
                navPoints |-> << [id |-> "navpoint-1", playOrder |-> 1,
                                  label |-> escapeHtml(article.title),
                                  src |-> "content.html"] >>]
        z1 == ZipFile(ZipSkeleton, "OEBPS/content.opf", opf)
        z2 == ZipFile(z1, "OEBPS/toc.ncx", ncx)
        z3 == ZipFile(z2, "OEBPS/content.html", SingleChapterDoc(article))
    IN  GenerateAsync(z3)

---------------------------------------------------------------------------
(* generateCollectionEpub: the plain collection of the front end *)

PlainNavPoints(arts) ==
    [i \in 1..Len(arts) |->
        [id |-> "navpoint-" \o ToString(i), playOrder |-> i,
         label |-> escapeHtml(arts[i].title), src |-> ChapterHref(i)]]

PlainChapterDoc(article) ==
    [kind |-> "chapter",
     label |-> <<>>,
     headTitle |-> escapeHtml(article.title),
     h1 |-> escapeHtml(article.title),
     meta |-> << <<"Source: ">> \o escapeHtml(article.siteName),
                 <<"URL: ">> \o escapeHtml(article.url) >>,
     body |-> article.content]

\* chapters filled from the other end of the list
PlainChapterDocsReversed(arts) ==
    [i \in 1..Len(arts) |-> PlainChapterDoc(arts[Len(arts) + 1 - i])]

PlainChapterDocs(arts) == [i \in 1..Len(arts) |-> PlainChapterDoc(arts[i])]

generateCollectionEpub(arts, t, a, uuid1, uuid2, date) ==
    LET opf == [kind |-> "opf",
                identifier |-> uuid1,
                title |-> escapeHtml(t),
                creator |-> escapeHtml(a),
                date |-> date,
                manifest |-> <<NcxItem>> \o ChapterItems(arts),
                spine |-> ChapterRefs(arts)]
        ncx == [kind |-> "ncx",
                uid |-> uuid2,
                totalPageCount |-> 0,
                docTitle |-> escapeHtml(t),
                navPoints |-> PlainNavPoints(arts)]
        z1 == ZipFile(ZipSkeleton, "OEBPS/content.opf", opf)
        z2 == ZipFile(z1, "OEBPS/toc.ncx", ncx)
    IN  GenerateAsync(AddFiles(z2, PlainChapterDocs(arts), 1))

---------------------------------------------------------------------------
(* generateCollectionEpubWithCover *)

CoverManifestItems(arts) ==
    <<[id |-> "cover", href |-> "cover.html"],
      [id |-> "toc-page", href |-> "toc.html"]>> \o ChapterItems(arts)

\* a spine that leaves the TOC page out
CoverSpineItemsNoToc(arts) == <<"cover">> \o ChapterRefs(arts)

CoverSpineItems(arts) == <<"cover", "toc-page">> \o ChapterRefs(arts)

\* chapters' playOrder not offset by the TOC page
CoverNavPointsNoOffset(arts) ==
    <<[id |-> "navpoint-0", playOrder |-> 1,
       label |-> <<"Table of Contents">>, src |-> "toc.html"]>>
    \o [i \in 1..Len(arts) |->
        [id |-> "navpoint-" \o ToString(i), playOrder |-> i,
         label |-> escapeHtml(arts[i].title), src |-> ChapterHref(i)]]

CoverNavPoints(arts) ==
    <<[id |-> "navpoint-0", playOrder |-> 1,
       label |-> <<"Table of Contents">>, src |-> "toc.html"]>>
    \o [i \in 1..Len(arts) |->
        [id |-> "navpoint-" \o ToString(i), playOrder |-> i + 1,
         label |-> escapeHtml(arts[i].title), src |-> ChapterHref(i)]]

\* article.wordCount ? `<p>Word count: ${article.wordCount} words</p>` : ''
WordCountLine(article) ==
    IF article.wordCount.t = "number" /\ article.wordCount.n # 0
    THEN << <<"Word count: ", ToString(article.wordCount.n), " words">> >>
    ELSE <<>>

CoverChapterDoc(article, i) ==
    [kind |-> "chapter",
     label |-> <<"Chapter ", ToString(i)>>,
     headTitle |-> escapeHtml(article.title),
     h1 |-> escapeHtml(article.title),
     meta |-> << <<"Source: ">> \o escapeHtml(article.siteName),
                 <<"URL: ">> \o escapeHtml(article.url) >> \o WordCountLine(article),
     body |-> article.content]

CoverChapterDocs(arts) == [i \in 1..Len(arts) |-> CoverChapterDoc(arts[i], i)]

generateCollectionEpubWithCover(arts, t, a, uuid1, uuid2, date, localeDate) ==
    LET opf == [kind |-> "opf",
                identifier |-> uuid1,
                title |-> escapeHtml(t),
                creator |-> escapeHtml(a),
                date |-> date,
                description |-> <<"Collection of ", ToString(Len(arts)),
                                  " articles compiled by LinkPub">>,
                manifest |-> <<NcxItem>> \o CoverManifestItems(arts),
                spine |-> CoverSpineItems(arts)]
        cover == [kind |-> "cover",
                  h1 |-> escapeHtml(t),
                  author |-> <<"by ">> \o escapeHtml(a),
                  articleCount |-> <<ToString(Len(arts)), " Articles">>,
                  generatedOn |-> localeDate]
        tocPage == [kind |-> "toc-page",
                    items |-> [i \in 1..Len(arts) |->
                                  [href |-> ChapterHref(i),
                                   label |-> escapeHtml(arts[i].title)]]]
        ncx == [kind |-> "ncx",
                uid |-> uuid2,
                totalPageCount |-> 0,
                docTitle |-> escapeHtml(t),
                navPoints |-> CoverNavPoints(arts)]
        z1 == ZipFile(ZipSkeleton, "OEBPS/content.opf", opf)
        z2 == ZipFile(z1, "OEBPS/cover.html", cover)
        z3 == ZipFile(z2, "OEBPS/toc.html", tocPage)
        z4 == ZipFile(z3, "OEBPS/toc.ncx", ncx)
    IN  GenerateAsync(AddFiles(z4, CoverChapterDocs(arts), 1))

---------------------------------------------------------------------------
(* generateCollectionEpubForApi *)

WordsPerPage == 250
DefaultWordCount == 1000

RECURSIVE totalWords(_)
\* articles.reduce((sum, article) => sum + (article.wordCount || 1000), 0)
totalWords(arts) ==
    IF arts = <<>> THEN 0
    ELSE (IF arts[1].wordCount.t = "number" /\ arts[1].wordCount.n # 0
          THEN arts[1].wordCount.n ELSE DefaultWordCount) + totalWords(Tail(arts))

\* Math.max(1, Math.ceil(totalWords / 250))
estimatedPages(arts) ==
    LET pages == (totalWords(arts) + WordsPerPage - 1) \div WordsPerPage
    IN  IF pages < 1 THEN 1 ELSE pages

ApiNavPoints(arts) ==
    [i \in 1..Len(arts) |->
        [id |-> "navpoint-" \o ToString(i), playOrder |-> i,
         label |-> escapeXml(arts[i].title), src |-> ChapterHref(i)]]

ApiChapterDoc(article) ==
    [kind |-> "chapter",
     label |-> <<>>,
     headTitle |-> escapeXml(article.title),
     h1 |-> escapeXml(article.title),
     meta |-> << <<"Source: ">> \o escapeXml(article.siteName),
                 <<"URL: ">> \o escapeXml(article.url) >> \o WordCountLine(article),
     body |-> article.content]

ApiChapterDocs(arts) == [i \in 1..Len(arts) |-> ApiChapterDoc(arts[i])]

generateCollectionEpubForApi(arts, t, a, d, uuid1, uuid2, date) ==
    LET opf == [kind |-> "opf",
                identifier |-> uuid1,
                title |-> escapeXml(t),
                creator |-> escapeXml(a),
                date |-> date,
                description |-> IF Falsy(d) THEN <<>> ELSE escapeXml(d),
                manifest |-> <<NcxItem>> \o ChapterItems(arts),
                spine |-> ChapterRefs(arts)]
        ncx == [kind |-> "ncx",
                uid |-> uuid2,
                totalPageCount |-> estimatedPages(arts),
                docTitle |-> escapeXml(t),
                navPoints |-> ApiNavPoints(arts)]
        z1 == ZipFile(ZipSkeleton, "OEBPS/content.opf", opf)
        z2 == ZipFile(z1, "OEBPS/toc.ncx", ncx)
    IN  GenerateAsync(AddFiles(z2, ApiChapterDocs(arts), 1))

---------------------------------------------------------------------------
(* Builds, applied to enumerated collections *)

Titles == {Undefined, Str(<<"a">>), Str(<<"b", "&">>)}
SiteNames == {Undefined, Str(<<"s">>)}
NoWordCount == [t |-> "undefined", n |-> 0]
Bodies == {[content |-> <<"<p>x</p>">>, wordCount |-> NoWordCount],
           [content |-> <<"<p>y</p>">>, wordCount |-> [t |-> "number", n |-> 300]],
           [content |-> <<"<img/>">>, wordCount |-> [t |-> "number", n |-> 0]]}

ArticleInputs ==
    {[title |-> ti, siteName |-> sn, url |-> Str(<<"u">>),
      content |-> b.content, wordCount |-> b.wordCount] :
        ti \in Titles, sn \in SiteNames, b \in Bodies}

UUIDs == {"uuid-1", "uuid-2"}             \* outcomes of generateUUID()
Dates == {"2024-01-01", "2024-01-02"}     \* new Date().toISOString().split('T')[0]
LocaleDates == {"1/1/2024", "1/2/2024"}   \* new Date().toLocaleDateString()

BuildInit ==
    /\ articles \in SeqsUpTo(ArticleInputs, MaxArticles)
    /\ title = Str(<<"T", "&">>)
    /\ author = Str(<<"A">>)
    /\ description \in {Str(<<>>), Str(<<"D">>)}
    /\ zip = <<>>
    /\ variant = "none"
    /\ outcome = "none"

\* Each behaviour is one call of one builder on the enumerated arguments.

\* the single-article build, of a list of one article
GenerateEpub ==
    /\ outcome = "none"
    /\ Len(articles) = 1
    /\ \E u1 \in UUIDs, u2 \in UUIDs :
          zip' = generateEpub(articles[1], u1, u2)
    /\ variant' = "single"
    /\ outcome' = "returned"
    /\ UNCHANGED <<articles, title, author, description, escVars, fnVars,
                   collVars, srvVars, reqVars>>

GenerateCollectionEpub ==
    /\ outcome = "none"
    /\ \E u1 \in UUIDs, u2 \in UUIDs, d \in Dates :
          zip' = generateCollectionEpub(articles, title, author, u1, u2, d)
    /\ variant' = "plain"
    /\ outcome' = "returned"
    /\ UNCHANGED <<articles, title, author, description, escVars, fnVars,
                   collVars, srvVars, reqVars>>

GenerateCollectionEpubWithCover ==
    /\ outcome = "none"
    /\ \E u1 \in UUIDs, u2 \in UUIDs, d \in Dates, ld \in LocaleDates :
          zip' = generateCollectionEpubWithCover(articles, title, author, u1, u2, d, ld)
    /\ variant' = "cover"
    /\ outcome' = "returned"
    /\ UNCHANGED <<articles, title, author, description, escVars, fnVars,
                   collVars, srvVars, reqVars>>

GenerateCollectionEpubForApi ==
    /\ outcome = "none"
    /\ \E u1 \in UUIDs, u2 \in UUIDs, d \in Dates :
          zip' = generateCollectionEpubForApi(articles, title, author, description, u1, u2, d)
    /\ variant' = "api"
    /\ outcome' = "returned"
    /\ UNCHANGED <<articles, title, author, description, escVars, fnVars,
                   collVars, srvVars, reqVars>>

---------------------------------------------------------------------------
(* The collection tab of the front end: this.articles, the article items   *)
(* shown in articlesContainer, and the extractions under way.  A URL is a  *)
(* text whose first piece is its scheme, when it has one.                  *)

MaxAdds == 2     \* calls of addArticleToCollection in one behaviour
MaxBulk == 2     \* longest pasted list of URLs

Schemes == {"http:", "https:", "ftp:"}

\* new URL(url) does not throw
ParsesAsUrl(url) == url # <<>> /\ Head(url) \in Schemes

validateUrl(url) ==
    /\ url # <<>>
    /\ ParsesAsUrl(url)
    /\ Head(url) \in {"http:", "https:"}

TypedUrls == {<<"http:", "u">>, <<"https:", "v">>, <<"ftp:", "w">>}

\* the article that POST /api/extract answers for url
ExtractedArticle(url) ==
    [title |-> Str(CASE url = <<"http:", "u">> -> <<"a">>
                     [] url = <<"https:", "v">> -> <<"b", "&">>
                     [] OTHER -> <<"c">>),
     siteName |-> Str(<<"s">>),
     url |-> Str(url),
     content |-> <<"<p>y</p>">>,
     wordCount |-> [t |-> "number", n |-> 300]]

\* article.id = articleId
WithId(article, id) ==
    [f \in DOMAIN article \cup {"id"} |-> IF f = "id" THEN id ELSE article[f]]

\* this.articles.some(article => article.url === url)
InCollection(as, url) == \E i \in DOMAIN as : as[i].url = Str(url)

\* array.splice(index, 1) on a copy, index >= 0
SpliceOut(s, index) ==
    SubSeq(s, 1, index) \o SubSeq(s, index + 2, Len(s))

\* array.splice(index, 0, x) on a copy, 0 <= index
SpliceIn(s, index, x) ==
    IF index >= Len(s) THEN Append(s, x)
    ELSE SubSeq(s, 1, index) \o <<x>> \o SubSeq(s, index + 1, Len(s))

\* the moved article is inserted and the one at oldIndex is not removed
reorderArticlesKeepingOld(as, oldIndex, newIndex) ==
    IF oldIndex # newIndex /\ Len(as) > oldIndex /\ Len(as) > newIndex
    THEN SpliceIn(as, newIndex, as[oldIndex + 1])
    ELSE as

reorderArticles(as, oldIndex, newIndex) ==
    IF oldIndex # newIndex /\ Len(as) > oldIndex /\ Len(as) > newIndex
    THEN SpliceIn(SpliceOut(as, oldIndex), newIndex, as[oldIndex + 1])
    ELSE as

\* Sortable moves the dragged item of the container before it calls onEnd
MoveItem(items, oldIndex, newIndex) ==
    SpliceIn(SpliceOut(items, oldIndex), newIndex, items[oldIndex + 1])

\* `${v}` for a title
TemplateText(v) == IF v.t = "string" THEN v.s ELSE <<v.t>>

RECURSIVE JoinLines(_)
\* titles.join('\n')
JoinLines(lines) ==
    IF lines = <<>> THEN <<>>
    ELSE IF Len(lines) = 1 THEN lines[1]
    ELSE lines[1] \o <<"\n">> \o JoinLines(Tail(lines))

\* the numbered lines without the case of one article
generateCollectionDescriptionAlwaysList(as) ==
    IF Len(as) = 0 THEN <<"Empty collection">>
    ELSE LET titles == [i \in 1..Len(as) |->
                           <<ToString(i), ". ">> \o TemplateText(as[i].title)]
         IN  <<"This collection contains ", ToString(Len(as)), " articles:\n\n">>
                 \o JoinLines(titles)

generateCollectionDescription(as) ==
    IF Len(as) = 0 THEN <<"Empty collection">>
    ELSE IF Len(as) = 1 THEN TemplateText(as[1].title)
    ELSE LET titles == [i \in 1..Len(as) |->
                           <<ToString(i), ". ">> \o TemplateText(as[i].title)]
         IN  <<"This collection contains ", ToString(Len(as)), " articles:\n\n">>
                 \o JoinLines(titles)

\* this.collectionTitle.value.trim() || 'Article Collection', and the author
DefaultCollectionTitle == Str(<<"Article Collection">>)
DefaultCollectionAuthor == Str(<<"LinkPub">>)

NoOutput == [op |-> "none", epub |-> <<>>, description |-> <<>>]

CollectionInit ==
    /\ thisArticles = <<>>
    /\ articlesContainer = <<>>
    /\ extracting = {}
    /\ bulkUrls = <<>>
    /\ bulkAwaits = 0
    /\ nextId = 1
    /\ out = NoOutput

\* A collection whose extractions have all ended: the articles extracted
\* from a list of URLs, in that order, each with its item, and possibly the
\* item of an extraction that failed.
SettledUrls == {<<"http:", "u">>, <<"https:", "v">>, <<"http:", "w">>}

SettledInit ==
    \E urls \in SeqsUpTo(SettledUrls, MaxArticles), failed \in {0, 1} :
        /\ thisArticles =
               [i \in 1..Len(urls) |-> WithId(ExtractedArticle(urls[i]), i)]
        /\ articlesContainer =
               [i \in 1..Len(urls) |-> [id |-> i, class |-> "success"]]
                   \o (IF failed = 1
                       THEN <<[id |-> Len(urls) + 1, class |-> "error"]>>
                       ELSE <<>>)
        /\ extracting = {}
        /\ bulkUrls = <<>>
        /\ bulkAwaits = 0
        /\ nextId = Len(urls) + failed + 1
        /\ out = NoOutput

BulkRunning == bulkUrls # <<>> \/ bulkAwaits # 0

\* addArticleToCollection up to `await this.extractArticle(url)`: a new id,
\* a new item in the container, the extraction under way
AddStarted(url) ==
    /\ articlesContainer' =
           Append(articlesContainer, [id |-> nextId, class |-> "processing"])
    /\ extracting' = extracting \cup {[id |-> nextId, url |-> url]}
    /\ nextId' = nextId + 1

\* item.classList of the item of id, if it is still in the container
WithClass(items, id, class) ==
    [i \in DOMAIN items |->
        IF items[i].id = id THEN [items[i] EXCEPT !.class = class] ELSE items[i]]

\* click on addArticleBtn, or Enter in collectionUrlInput (which the loading
\* state of a bulk run does not disable)
HandleAddArticle ==
    \E url \in TypedUrls :
        /\ IF ~validateUrl(url)
           THEN /\ out' = NoOutput       \* showCollectionError
                /\ UNCHANGED <<articlesContainer, extracting, nextId>>
           ELSE IF InCollection(thisArticles, url)
           THEN /\ out' = NoOutput       \* showCollectionError
                /\ UNCHANGED <<articlesContainer, extracting, nextId>>
           ELSE /\ nextId <= MaxAdds
                /\ AddStarted(url)
                /\ out' = NoOutput
        /\ UNCHANGED <<thisArticles, bulkUrls, bulkAwaits>>
        /\ UNCHANGED <<escVars, fnVars, buildVars, srvVars, reqVars>>

\* addArticleToCollection after extractArticle resolved
ExtractResolved ==
    \E e \in extracting :
        /\ thisArticles' = Append(thisArticles, WithId(ExtractedArticle(e.url), e.id))
        /\ articlesContainer' = WithClass(articlesContainer, e.id, "success")
        /\ extracting' = extracting \ {e}
        /\ bulkAwaits' = IF bulkAwaits = e.id THEN 0 ELSE bulkAwaits
        /\ out' = NoOutput
        /\ UNCHANGED <<bulkUrls, nextId>>
        /\ UNCHANGED <<escVars, fnVars, buildVars, srvVars, reqVars>>

\* addArticleToCollection after extractArticle threw
ExtractRejected ==
    \E e \in extracting :
        /\ articlesContainer' = WithClass(articlesContainer, e.id, "error")
        /\ extracting' = extracting \ {e}
        /\ bulkAwaits' = IF bulkAwaits = e.id THEN 0 ELSE bulkAwaits
        /\ out' = NoOutput
        /\ UNCHANGED <<thisArticles, bulkUrls, nextId>>
        /\ UNCHANGED <<escVars, fnVars, buildVars, srvVars, reqVars>>

\* handleBulkProcess with the lines of the textarea, and processBulkUrls up
\* to its first await: the first URL kept is under extraction
HandleBulkProcess ==
    \E lines \in SeqsUpTo(TypedUrls, MaxBulk) :
        LET Kept(url) == validateUrl(url) /\ ~InCollection(thisArticles, url)
            urls == SelectSeq(lines, Kept)
        IN  /\ ~BulkRunning
            /\ IF urls = <<>>
               THEN /\ out' = NoOutput   \* showCollectionError
                    /\ UNCHANGED <<articlesContainer, extracting, nextId,
                                   bulkUrls, bulkAwaits>>
               ELSE /\ nextId + Len(urls) - 1 <= MaxAdds
                    /\ AddStarted(Head(urls))
                    /\ bulkAwaits' = nextId
                    /\ bulkUrls' = Tail(urls)
                    /\ out' = NoOutput
            /\ UNCHANGED thisArticles
            /\ UNCHANGED <<escVars, fnVars, buildVars, srvVars, reqVars>>

\* processBulkUrls: the next turn of the loop, after the add it awaited and
\* the delay
ProcessBulkUrls ==
    /\ bulkAwaits = 0
    /\ bulkUrls # <<>>
    /\ AddStarted(Head(bulkUrls))
    /\ bulkAwaits' = nextId
    /\ bulkUrls' = Tail(bulkUrls)
    /\ out' = NoOutput
    /\ UNCHANGED thisArticles
    /\ UNCHANGED <<escVars, fnVars, buildVars, srvVars, reqVars>>

\* the Remove button of an item
RemoveArticle ==
    \E i \in DOMAIN articlesContainer :
        LET id == articlesContainer[i].id
            Other(x) == x.id # id
        IN  /\ thisArticles' = SelectSeq(thisArticles, Other)
            /\ articlesContainer' = SelectSeq(articlesContainer, Other)
            /\ out' = NoOutput
            /\ UNCHANGED <<extracting, bulkUrls, bulkAwaits, nextId>>
            /\ UNCHANGED <<escVars, fnVars, buildVars, srvVars, reqVars>>

\* handleClearAll, confirmed
HandleClearAll ==
    /\ thisArticles # <<>>
    /\ thisArticles' = <<>>
    /\ articlesContainer' = <<>>
    /\ out' = NoOutput
    /\ UNCHANGED <<extracting, bulkUrls, bulkAwaits, nextId>>
    /\ UNCHANGED <<escVars, fnVars, buildVars, srvVars, reqVars>>

\* an item dragged from oldIndex and dropped at newIndex: Sortable's onEnd
DragEndAt(oldIndex, newIndex) ==
    /\ oldIndex \in 0..(Len(articlesContainer) - 1)
    /\ newIndex \in 0..(Len(articlesContainer) - 1)
    /\ articlesContainer' = MoveItem(articlesContainer, oldIndex, newIndex)
    /\ thisArticles' = reorderArticles(thisArticles, oldIndex, newIndex)
    /\ out' = NoOutput
    /\ UNCHANGED <<extracting, bulkUrls, bulkAwaits, nextId>>
    /\ UNCHANGED <<escVars, fnVars, buildVars, srvVars, reqVars>>

DragEnd ==
    \E oldIndex \in 0..(Len(articlesContainer) - 1),
       newIndex \in 0..(Len(articlesContainer) - 1) : DragEndAt(oldIndex, newIndex)

\* the values that a build of the collection tab reads: generateUUID() called
\* twice, new Date() printed twice
BuildUuid1 == "uuid-1"
BuildUuid2 == "uuid-2"
BuildDate == "2024-01-01"
BuildLocaleDate == "1/1/2024"

HandleGenerateCover ==
    /\ thisArticles # <<>>
    /\ out' = [NoOutput EXCEPT
                  !.op = "handleGenerateCover",
                  !.epub = generateCollectionEpubWithCover(thisArticles,
                               DefaultCollectionTitle, DefaultCollectionAuthor,
                               BuildUuid1, BuildUuid2, BuildDate, BuildLocaleDate)]
    /\ UNCHANGED <<thisArticles, articlesContainer, extracting, bulkUrls,
                   bulkAwaits, nextId>>
    /\ UNCHANGED <<escVars, fnVars, buildVars, srvVars, reqVars>>

\* handleSaveCollection: the body it posts to /api/epubs/save
HandleSaveCollection ==
    /\ thisArticles # <<>>
    /\ out' = [NoOutput EXCEPT
                  !.op = "handleSaveCollection",
                  !.description = generateCollectionDescription(thisArticles),
                  !.epub = generateCollectionEpub(thisArticles,
                               DefaultCollectionTitle, DefaultCollectionAuthor,
                               BuildUuid1, BuildUuid2, BuildDate)]
    /\ UNCHANGED <<thisArticles, articlesContainer, extracting, bulkUrls,
                   bulkAwaits, nextId>>
    /\ UNCHANGED <<escVars, fnVars, buildVars, srvVars, reqVars>>

---------------------------------------------------------------------------
(* The server: users.json, the session store, converted_urls.json, and the  *)
(* routes that read and write them.                                        *)
(*                                                                         *)
(* express-session with the MemoryStore (server.js 52-60: resave false,    *)
(* saveUninitialized false): every request gets its own copy of the        *)
(* session stored under its cookie; when the response ends, the copy is    *)
(* written back to the store if the handler changed it;                    *)
(* req.session.destroy() deletes the store's entry and leaves the cookie   *)
(* with the client.  A client is a browser with its cookie jar.            *)

MaxUrlsPerRequest == 50

\* requests that wait for the file system at the same time
MaxPending == 1

Clients == {"c1", "c2"}
ApiKeys == {"lp_1", "lp_2"}           \* outcomes of generateApiKey()

NoPreferences == [trackUrls |-> "undefined", apiKey |-> "undefined"]
NoUser == [id |-> "", username |-> "", preferences |-> NoPreferences]
NoUsers == [u \in {} |-> NoUser]

\* defaultUsers of initializeApp
DefaultUsers ==
    [u \in {"admin"} |->
        [username |-> "admin", password |-> "changeme",
         preferences |-> [trackUrls |-> "true", apiKey |-> "undefined"]]]

\* a users.json that an earlier run left in the data directory
EarlierUsers ==
    [u \in {"admin"} |->
        [username |-> "admin", password |-> "S3cret",
         preferences |-> [trackUrls |-> "true", apiKey |-> "lp_1"]]]

NoFile == [exists |-> FALSE, users |-> NoUsers]
FileOf(users) == [exists |-> TRUE, users |-> users]

\* users.json.example is not among the sources; it holds some list of users
ExampleFiles == {NoUsers, DefaultUsers}

\* loadUsers(): { users: [] } when the file cannot be read
loadUsers(file) == IF file.exists THEN file.users ELSE NoUsers

\* { ...old, ...preferences }
MergePreferences(old, new) ==
    [f \in DOMAIN old |-> IF new[f] # "undefined" THEN new[f] ELSE old[f]]

MaxEntriesPerUser == 1000

Newer(a, b) == a.convertedAt > b.convertedAt

\* nothing is cut
KeepAll(userUrls) == userUrls

\* userUrls.sort((a, b) => new Date(b.convertedAt) - new Date(a.convertedAt))
\*         .slice(0, 1000); the sort is stable, as that of Node is
KeepNewest(userUrls) ==
    SubSeq(SortSeq(userUrls, Newer), 1, MaxEntriesPerUser)

\* trackConvertedUrl: the entry of the same URL and user is removed, the
\* new entry is pushed; when the user then has more than 1000 entries, the
\* entries of the others are followed by the user's 1000 newest
trackConvertedUrl(urls, userId, url, convertedAt) ==
    LET Other(entry) == ~(entry.url = url /\ entry.userId = userId)
        pushed == Append(SelectSeq(urls, Other),
                         [userId |-> userId, url |-> url, convertedAt |-> convertedAt])
        OfUser(entry) == entry.userId = userId
        OfOthers(entry) == entry.userId # userId
        userUrls == SelectSeq(pushed, OfUser)
    IN  IF Len(userUrls) > MaxEntriesPerUser
        THEN SelectSeq(pushed, OfOthers) \o KeepNewest(userUrls)
        ELSE pushed

\* the loop of POST /api/v1/generate-epub calls trackConvertedUrl for every
\* extracted URL in turn: the user's entries of these URLs are removed, and
\* each URL is left once, at the place of its last push.  (A request has at
\* most 50 URLs; the histories it meets here stay far from 1000 entries.)
TrackAll(urls, userId, extracted, convertedAt) ==
    LET Other(entry) ==
            ~(entry.userId = userId /\ \E i \in DOMAIN extracted : extracted[i] = entry.url)
        last == {i \in DOMAIN extracted :
                    \A j \in DOMAIN extracted : j > i => extracted[j] # extracted[i]}
        nth(k) == CHOOSE i \in last : Cardinality({j \in last : j <= i}) = k
    IN  SelectSeq(urls, Other) \o
        [k \in 1..Cardinality(last) |->
            [userId |-> userId, url |-> extracted[nth(k)], convertedAt |-> convertedAt]]

\* the key is compared with preferences.apiKey of every user, also when the
\* request carries none
requireApiKeyUnchecked(file, apiKey) ==
    LET users == loadUsers(file)
        found == {u \in DOMAIN users : users[u].preferences.apiKey = apiKey}
    IN  IF found = {} THEN "" ELSE CHOOSE u \in found : TRUE

\* requireApiKey: the id of the user that the key authenticates, "" for 401.
\* A request without key has apiKey "undefined".
requireApiKey(file, apiKey) ==
    LET users == loadUsers(file)
        found == {u \in DOMAIN users : users[u].preferences.apiKey = apiKey}
    IN  IF apiKey = "undefined" \/ found = {} THEN "" ELSE CHOOSE u \in found : TRUE

\* the body's urls: absent, a string, or an array of strings
NoUrls == [kind |-> "undefined", items |-> <<>>]
UrlsString == [kind |-> "string", items |-> <<>>]
UrlsArray(items) == [kind |-> "array", items |-> items]

\* the URLs are checked, their number is not
validateUrlsUnlimited(urls) ==
    IF urls.kind # "array" \/ Len(urls.items) = 0 THEN 400
    ELSE IF \E i \in DOMAIN urls.items : ~ParsesAsUrl(urls.items[i]) THEN 400
    ELSE 0

\* validation of POST /api/v1/generate-epub: 400, or 0 when the body passes
validateUrls(urls) ==
    IF urls.kind # "array" \/ Len(urls.items) = 0 THEN 400
    ELSE IF Len(urls.items) > MaxUrlsPerRequest THEN 400
    ELSE IF \E i \in DOMAIN urls.items : ~ParsesAsUrl(urls.items[i]) THEN 400
    ELSE 0

PageU == <<"http:", "u">>
Repeated(url, n) == [i \in 1..n |-> url]

UrlsInputs ==
    {NoUrls, UrlsString, UrlsArray(<<>>),
     UrlsArray(<<PageU>>),
     UrlsArray(<<PageU, <<"ftp:", "w">> >>),
     UrlsArray(<<PageU, <<"x">> >>),
     UrlsArray(Repeated(PageU, MaxUrlsPerRequest)),
     UrlsArray(Append(Repeated(PageU, MaxUrlsPerRequest - 1), <<"x">>)),
     UrlsArray(Repeated(PageU, MaxUrlsPerRequest + 1))}

\* pages that answer a fetch with a readable article, request by request
Reachable == SUBSET {PageU}

NoRequest == [route |-> "none", user |-> NoUser, preferences |-> NoPreferences,
              orphan |-> FALSE]

NoResponse ==
    [route |-> "none", step |-> "request", gate |-> "none", client |-> "",
     apiKey |-> "undefined", user |-> "", urls |-> NoUrls, status |-> 0,
     fetched |-> <<>>, epub |-> FALSE, errors |-> <<>>, file |-> <<>>]

ServerInit ==
    /\ started = FALSE
    /\ usersFile \in {NoFile, FileOf(EarlierUsers)}
    /\ sessions = [c \in Clients |-> NoUser]
    /\ history = <<>>
    /\ inflight = [c \in Clients |-> NoRequest]
    /\ res = NoResponse
    /\ loggedIn = [c \in Clients |-> FALSE]
    /\ freshInstall = FALSE

\* the session that a login of the user makes
SessionOf(users, u) ==
    [id |-> u, username |-> users[u].username, preferences |-> users[u].preferences]

\* the server listens; users.json holds the administrator, with or without
\* an API key, tracking or not, who has logged in from the first client
ApiInit ==
    /\ started = TRUE
    /\ \E trackUrls \in {"true", "false"}, apiKey \in {"undefined", "lp_1"} :
           usersFile = FileOf([DefaultUsers EXCEPT
               !["admin"].preferences = [trackUrls |-> trackUrls, apiKey |-> apiKey]])
    /\ sessions = [c \in Clients |-> IF c = "c1"
                                     THEN SessionOf(usersFile.users, "admin")
                                     ELSE NoUser]
    /\ history \in {<<>>, <<[userId |-> "admin", url |-> PageU, convertedAt |-> 0]>>}
    /\ inflight = [c \in Clients |-> NoRequest]
    /\ res = NoResponse
    /\ loggedIn = [c \in Clients |-> c = "c1"]
    /\ freshInstall = FALSE

\* initializeApp, before app.listen
InitializeApp ==
    /\ ~started
    /\ started' = TRUE
    /\ IF usersFile.exists
       THEN UNCHANGED <<usersFile, freshInstall>>
       ELSE /\ \E users \in ExampleFiles \cup {DefaultUsers} :
                  usersFile' = FileOf(users)
            /\ freshInstall' = TRUE
    /\ res' = NoResponse
    /\ UNCHANGED <<sessions, history, inflight, loggedIn>>
    /\ UNCHANGED <<escVars, fnVars, buildVars, collVars, reqVars>>

Usernames == {"admin", "bob", ""}
Passwords == {"changeme", "S3cret", ""}

\* POST /api/auth/login
Login ==
    \E c \in Clients, username \in Usernames, password \in Passwords :
        LET users == loadUsers(usersFile)
            found == {u \in DOMAIN users : /\ users[u].username = username
                                           /\ users[u].password = password}
            answer(status) ==
                [NoResponse EXCEPT !.route = "POST /api/auth/login",
                                   !.client = c, !.status = status]
        IN  /\ started
            /\ IF username = "" \/ password = ""
               THEN /\ res' = answer(400)
                    /\ UNCHANGED <<sessions, inflight, loggedIn>>
               ELSE IF found = {}
               THEN /\ res' = answer(401)
                    /\ UNCHANGED <<sessions, inflight, loggedIn>>
               ELSE LET u == CHOOSE u \in found : TRUE
                    IN  /\ sessions' = [sessions EXCEPT ![c] = SessionOf(users, u)]
                        \* without a stored session the login creates one,
                        \* under a new cookie: a request still under way
                        \* keeps the identifier of the old one
                        /\ inflight' = [inflight EXCEPT ![c].orphan =
                               @ \/ (inflight[c] # NoRequest /\ sessions[c] = NoUser)]
                        /\ loggedIn' = [loggedIn EXCEPT ![c] = TRUE]
                        /\ res' = [answer(200) EXCEPT !.user = u]
            /\ UNCHANGED <<started, usersFile, history, freshInstall>>
            /\ UNCHANGED <<escVars, fnVars, buildVars, collVars, reqVars>>

\* POST /api/auth/logout
Logout ==
    \E c \in Clients :
        /\ started
        /\ sessions' = [sessions EXCEPT ![c] = NoUser]
        /\ loggedIn' = [loggedIn EXCEPT ![c] = FALSE]
        /\ res' = [NoResponse EXCEPT !.route = "POST /api/auth/logout",
                                     !.client = c, !.status = 200]
        /\ UNCHANGED <<started, usersFile, history, inflight, freshInstall>>
        /\ UNCHANGED <<escVars, fnVars, buildVars, collVars, reqVars>>

RequestKeys == ApiKeys \cup {"undefined", "lp_0"}

PreferencesBodies ==
    {NoPreferences,
     [trackUrls |-> "false", apiKey |-> "undefined"],
     [trackUrls |-> "true", apiKey |-> "undefined"]}

\* a response of a route behind requireAuth
Guarded(route, c, status) ==
    [NoResponse EXCEPT !.route = route, !.gate = "requireAuth", !.client = c,
                       !.user = sessions[c].id, !.status = status]

\* PUT /api/user/preferences up to `await loadUsers()`.  A body without
\* preferences is NoPreferences.
PutPreferencesOf(c, preferences) ==
        LET route == "PUT /api/user/preferences"
        IN  /\ started
            /\ inflight[c] = NoRequest
            /\ Cardinality({d \in Clients : inflight[d] # NoRequest}) < MaxPending
            /\ IF sessions[c] = NoUser
               THEN /\ res' = Guarded(route, c, 401)
                    /\ UNCHANGED inflight
               ELSE IF preferences = NoPreferences
               THEN /\ res' = Guarded(route, c, 400)
                    /\ UNCHANGED inflight
               ELSE /\ res' = Guarded(route, c, 0)
                    /\ inflight' = [inflight EXCEPT ![c] =
                           [route |-> route, user |-> sessions[c],
                            preferences |-> preferences, orphan |-> FALSE]]
            /\ UNCHANGED <<started, usersFile, sessions, history, loggedIn,
                           freshInstall>>
            /\ UNCHANGED <<escVars, fnVars, buildVars, collVars, reqVars>>

PutPreferences ==
    \E c \in Clients, preferences \in PreferencesBodies :
        PutPreferencesOf(c, preferences)

\* PUT /api/user/preferences whose preferences hold an apiKey
PutPreferencesApiKey ==
    \E c \in Clients, apiKey \in RequestKeys \ {"undefined"} :
        PutPreferencesOf(c, [trackUrls |-> "undefined", apiKey |-> apiKey])

\* PUT /api/user/preferences from loadUsers() on: the file is written, the
\* request's copy of the session is changed and, having changed, saved
PutPreferencesCompletes ==
    \E c \in Clients :
        LET req == inflight[c]
            users == loadUsers(usersFile)
            merged == MergePreferences(users[req.user.id].preferences,
                                       req.preferences)
            session == [req.user EXCEPT !.preferences = merged]
            answer(status) ==
                [NoResponse EXCEPT !.route = req.route, !.step = "completion",
                                   !.gate = "requireAuth", !.client = c,
                                   !.user = req.user.id, !.status = status]
        IN  /\ req.route = "PUT /api/user/preferences"
            /\ inflight' = [inflight EXCEPT ![c] = NoRequest]
            /\ IF req.user.id \notin DOMAIN users
               THEN /\ res' = answer(404)
                    /\ UNCHANGED <<usersFile, sessions>>
               ELSE /\ usersFile' = FileOf([users EXCEPT
                                               ![req.user.id].preferences = merged])
                    /\ sessions' = IF session # req.user /\ ~req.orphan
                                   THEN [sessions EXCEPT ![c] = session]
                                   ELSE sessions
                    /\ res' = answer(200)
            /\ UNCHANGED <<started, history, loggedIn, freshInstall>>
            /\ UNCHANGED <<escVars, fnVars, buildVars, collVars, reqVars>>

\* POST /api/user/api-key
PostApiKey ==
    \E c \in Clients, apiKey \in ApiKeys :
        LET route == "POST /api/user/api-key"
            users == loadUsers(usersFile)
            id == sessions[c].id
        IN  /\ started
            /\ \A u \in DOMAIN users : users[u].preferences.apiKey # apiKey
            /\ IF sessions[c] = NoUser
               THEN /\ res' = Guarded(route, c, 401)
                    /\ UNCHANGED <<usersFile, sessions>>
               ELSE IF id \notin DOMAIN users
               THEN /\ res' = Guarded(route, c, 404)
                    /\ UNCHANGED <<usersFile, sessions>>
               ELSE LET preferences ==
                            [users[id].preferences EXCEPT !.apiKey = apiKey]
                    IN  /\ usersFile' = FileOf([users EXCEPT
                                                   ![id].preferences = preferences])
                        /\ sessions' = [sessions EXCEPT
                                           ![c].preferences = preferences]
                        /\ res' = Guarded(route, c, 200)
            /\ UNCHANGED <<started, history, inflight, loggedIn, freshInstall>>
            /\ UNCHANGED <<escVars, fnVars, buildVars, collVars, reqVars>>

\* POST /api/extract; a body without url has the url <<>>
PostExtract ==
    \E c \in Clients, url \in {PageU, <<>>}, reachable \in Reachable :
        LET route == "POST /api/extract"
        IN  /\ started
            /\ IF sessions[c] = NoUser
               THEN /\ res' = Guarded(route, c, 401)
                    /\ UNCHANGED history
               ELSE IF url = <<>>
               THEN /\ res' = Guarded(route, c, 400)
                    /\ UNCHANGED history
               ELSE IF url \notin reachable
               THEN /\ res' = [Guarded(route, c, 500) EXCEPT !.fetched = <<url>>]
                    /\ UNCHANGED history
               ELSE /\ res' = [Guarded(route, c, 200) EXCEPT !.fetched = <<url>>]
                    /\ history' =
                           IF sessions[c].preferences.trackUrls # "false"
                           THEN trackConvertedUrl(history, sessions[c].id, url, 0)
                           ELSE history
            /\ UNCHANGED <<started, usersFile, sessions, inflight, loggedIn,
                           freshInstall>>
            /\ UNCHANGED <<escVars, fnVars, buildVars, collVars, reqVars>>

\* a response of a route behind requireApiKey
Keyed(route, apiKey, urls, status) ==
    [NoResponse EXCEPT !.route = route, !.gate = "requireApiKey",
                       !.apiKey = apiKey, !.urls = urls,
                       !.user = requireApiKey(usersFile, apiKey),
                       !.status = status]

\* POST /api/v1/generate-epub
\* the extraction loop with every URL counted as extracted
extractedUrlsAll(items, reachable) == items

\* for (let i = 0; i < urls.length; i++) { try { articles.push(...) } catch {...} }:
\* the URLs whose article was pushed, in the order of the request
extractedUrls(items, reachable) ==
    LET InReach(url) == url \in reachable
    IN  SelectSeq(items, InReach)

ApiGenerateEpub(apiKey, urls, reachable) ==
        LET route == "POST /api/v1/generate-epub"
            apiUser == requireApiKey(usersFile, apiKey)
            OutOfReach(url) == url \notin reachable
            extracted == extractedUrls(urls.items, reachable)
            extractedArticles == [i \in 1..Len(extracted) |-> ExtractedArticle(extracted[i])]
            failed == SelectSeq(urls.items, OutOfReach)
            epubTitle == Str(<<"Generated Collection (" \o ToString(Len(urls.items))
                                 \o " articles)">>)
            epubAuthor == Str(<<"LinkPub API">>)
            epubDescription == Str(<<>>)
        IN  /\ started
            /\ IF apiUser = ""
               THEN /\ res' = Keyed(route, apiKey, urls, 401)
                    /\ UNCHANGED history
               ELSE IF validateUrls(urls) # 0
               THEN /\ res' = Keyed(route, apiKey, urls, validateUrls(urls))
                    /\ UNCHANGED history
               ELSE /\ history' =
                           IF loadUsers(usersFile)[apiUser].preferences.trackUrls
                                  # "false"
                           THEN TrackAll(history, apiUser, extracted, 0)
                           ELSE history
                    /\ res' = IF extractedArticles = <<>>
                              THEN [Keyed(route, apiKey, urls, 422) EXCEPT
                                       !.fetched = urls.items,
                                       !.errors = failed]
                              ELSE [Keyed(route, apiKey, urls, 200) EXCEPT
                                       !.fetched = urls.items, !.epub = TRUE,
                                       !.errors = failed,
                                       !.file = generateCollectionEpubForApi(
                                                    extractedArticles, epubTitle, epubAuthor,
                                                    epubDescription, BuildUuid1,
                                                    BuildUuid2, BuildDate)]
            /\ UNCHANGED <<started, usersFile, sessions, inflight, loggedIn,
                           freshInstall>>
            /\ UNCHANGED <<escVars, fnVars, buildVars, collVars, reqVars>>

PostGenerateEpub ==
    \E apiKey \in RequestKeys, urls \in UrlsInputs, reachable \in Reachable :
        ApiGenerateEpub(apiKey, urls, reachable)

MaxUrls == 3
PageV == <<"https:", "v">>
PageW == <<"http:", "w">>
Pages == {PageU, PageV, PageW}

\* the requests of up to MaxUrls pages
PagesInputs ==
    UNION {[1..n -> Pages] : n \in 1..MaxUrls}

\* POST /api/v1/generate-epub for some pages, some of which cannot be extracted
PostGenerateEpubOfPages ==
    \E apiKey \in ApiKeys, items \in PagesInputs, reachable \in SUBSET Pages :
        ApiGenerateEpub(apiKey, UrlsArray(items), reachable)

\* POST /api/v1/generate-epub for one page, with a key of ApiKeys
PostGenerateEpubOfPage ==
    \E apiKey \in ApiKeys, reachable \in Reachable :
        ApiGenerateEpub(apiKey, UrlsArray(<<PageU>>), reachable)

\* GET /api/v1/status
GetStatus ==
    \E apiKey \in RequestKeys :
        LET route == "GET /api/v1/status"
        IN  /\ started
            /\ res' = Keyed(route, apiKey, NoUrls,
                            IF requireApiKey(usersFile, apiKey) = "" THEN 401 ELSE 200)
            /\ UNCHANGED <<started, usersFile, sessions, history, inflight,
                           loggedIn, freshInstall>>
            /\ UNCHANGED <<escVars, fnVars, buildVars, collVars, reqVars>>

---------------------------------------------------------------------------
(* POST /api/extract behind requireAuth: the loop over the user agents.    *)
(* A step of the loop is one pass through its body, from the fetch to the  *)
(* wait that precedes the next pass.                                      *)

userAgents ==
    <<"Chrome/120 Windows", "Chrome/120 Macintosh", "Firefox/121 Windows",
      "Safari/17.1 Macintosh", "Chrome/120 Linux">>

\* what a pass meets: a readable article, the status 403, another status
\* that is not ok, a page of fewer than 100 characters
Outcomes == {"ok", "403", "404", "short"}

\* the message of the error that a pass throws
MessageOf(result) ==
    CASE result = "403" -> "HTTP 403"
      [] result = "404" -> "HTTP 404"
      [] result = "short" -> "Response too short, possible blocking"
      [] OTHER -> "undefined"

\* every 403 goes on to the next pass
NextAgentAfterEvery403(result, i) == result = "403"

\* response.status === 403 && i < userAgents.length - 1
NextAgentAfter403(result, i) == result = "403" /\ i < Len(userAgents) - 1

ExtractUrls == {PageU, <<"x">>, <<>>}

ExtractInit ==
    /\ extractPc = "idle"
    /\ extractUrl = <<>>
    /\ extractI = 0
    /\ lastError = "undefined"
    /\ attempts = <<>>
    /\ responses = <<>>
    /\ tracking = "none"

\* the handler up to the loop.  `new URL(url)` stands outside every try: when
\* it throws, the promise of the handler is rejected and server.js sends
\* nothing; Express 5 answers 500 for it, Express 4 ignores it.
ExtractBegin ==
    \E url \in ExtractUrls, express5 \in BOOLEAN :
        /\ extractPc = "idle"
        /\ extractUrl' = url
        /\ IF url = <<>>
           THEN /\ responses' = <<[status |-> 400, userAgent |-> "",
                                   message |-> "URL is required"]>>
                /\ extractPc' = "ended"
           ELSE IF ~ParsesAsUrl(url)
           THEN /\ responses' = IF express5
                                THEN <<[status |-> 500, userAgent |-> "",
                                        message |-> "Invalid URL"]>>
                                ELSE <<>>
                /\ extractPc' = "ended"
           ELSE /\ responses' = <<>>
                /\ extractPc' = "loop"
        /\ UNCHANGED <<extractI, lastError, attempts, tracking>>
        /\ UNCHANGED notExtVars

\* one pass of the loop, the write of the history included
ExtractAttempt ==
    \E result \in Outcomes, write \in {"off", "saved", "failed"} :
        /\ extractPc = "loop"
        /\ extractI < Len(userAgents)
        /\ attempts' = Append(attempts, [userAgent |-> userAgents[extractI + 1],
                                         outcome |-> result])
        /\ IF NextAgentAfter403(result, extractI)
           THEN /\ extractI' = extractI + 1
                /\ UNCHANGED <<lastError, responses, tracking, extractPc>>
           ELSE IF result = "ok"
           THEN /\ tracking' = write
                /\ responses' = Append(responses,
                       [status |-> 200, userAgent |-> userAgents[extractI + 1],
                        message |-> ""])
                /\ extractPc' = "ended"
                /\ UNCHANGED <<extractI, lastError>>
           ELSE /\ lastError' = MessageOf(result)
                /\ extractI' = extractI + 1
                /\ UNCHANGED <<responses, tracking, extractPc>>
        /\ UNCHANGED extractUrl
        /\ UNCHANGED notExtVars

\* after the loop
ExtractFailed ==
    /\ extractPc = "loop"
    /\ extractI = Len(userAgents)
    /\ responses' = Append(responses, [status |-> 500, userAgent |-> "",
                                       message |-> lastError])
    /\ extractPc' = "ended"
    /\ UNCHANGED <<extractUrl, extractI, lastError, attempts, tracking>>
    /\ UNCHANGED notExtVars

---------------------------------------------------------------------------
(* converted_urls.json under trackConvertedUrl and                         *)
(* DELETE /api/user/converted-urls.  In this part the URLs of the history  *)
(* are numbered, <<"http:", k>>, and the clock gives convertedAt.          *)

MaxCalls == 2

HistoryUsers == {"admin", "bob"}
NumberedUrl(k) == <<"http:", k>>
EntryOf(userId, k, convertedAt) ==
    [userId |-> userId, url |-> NumberedUrl(k), convertedAt |-> convertedAt]

\* histories that calls of trackConvertedUrl have left: the administrator's
\* entries in the order of their pushes or, after a cut, newest first
HistoryInputs ==
    {<<>>,
     <<EntryOf("bob", 1, 1), EntryOf("admin", 1, 2), EntryOf("admin", 2, 3)>>,
     [i \in 1..(MaxEntriesPerUser - 1) |-> EntryOf("admin", i, i)],
     [i \in 1..(MaxEntriesPerUser + 1) |->
         IF i = 2 THEN EntryOf("bob", 1, i) ELSE EntryOf("admin", i, i)],
     <<EntryOf("bob", 1, 1)>> \o
         [i \in 1..MaxEntriesPerUser |->
             EntryOf("admin", MaxEntriesPerUser + 2 - i, MaxEntriesPerUser + 2 - i)]}

\* the URLs of the calls: the oldest and the newest that a full history
\* holds, and one that it does not hold
CallUrls == {NumberedUrl(1), NumberedUrl(MaxEntriesPerUser + 1),
             NumberedUrl(MaxEntriesPerUser + 2)}

Requests == {"r1", "r2"}

NoCall == [n |-> 0, op |-> "none", userId |-> "", url |-> <<>>, convertedAt |-> 0]
NoWorker == [pc |-> "idle", op |-> "none", userId |-> "", url |-> <<>>,
             convertedAt |-> 0, urlsData |-> <<>>]

HistoryIdle ==
    /\ clock = 0
    /\ lastCall = NoCall
    /\ workers = [r \in Requests |-> NoWorker]

\* the server runs, the clock is later than every entry
HistoryInit ==
    /\ history \in HistoryInputs
    /\ clock = MaxEntriesPerUser + 2
    /\ lastCall = NoCall
    /\ workers = [r \in Requests |-> NoWorker]
    /\ started = TRUE /\ usersFile = FileOf(DefaultUsers)
    /\ sessions = [c \in Clients |-> NoUser]
    /\ inflight = [c \in Clients |-> NoRequest]
    /\ res = NoResponse
    /\ loggedIn = [c \in Clients |-> FALSE] /\ freshInstall = FALSE

\* new Date(): the millisecond of the last call, or a later one
Now == {clock, clock + 1}

\* trackConvertedUrl, no other call running
TrackConvertedUrl ==
    \E userId \in HistoryUsers, url \in CallUrls, now \in Now :
        /\ lastCall.n < MaxCalls
        /\ history' = trackConvertedUrl(history, userId, url, now)
        /\ clock' = now
        /\ lastCall' = [n |-> lastCall.n + 1, op |-> "track", userId |-> userId,
                        url |-> url, convertedAt |-> now]
        /\ UNCHANGED <<workers, started, usersFile, sessions, inflight, res,
                       loggedIn, freshInstall>>
        /\ UNCHANGED <<escVars, fnVars, buildVars, collVars, extVars, libVars,
                       themeVars>>

\* the handler of DELETE /api/user/converted-urls, no other call running
DeleteConvertedUrls ==
    \E userId \in HistoryUsers :
        LET Other(entry) == entry.userId # userId
        IN  /\ lastCall.n < MaxCalls
            /\ history' = SelectSeq(history, Other)
            /\ lastCall' = [n |-> lastCall.n + 1, op |-> "clear", userId |-> userId,
                            url |-> <<>>, convertedAt |-> clock]
            /\ UNCHANGED <<clock, workers, started, usersFile, sessions, inflight,
                           res, loggedIn, freshInstall>>
            /\ UNCHANGED <<escVars, fnVars, buildVars, collVars, extVars, libVars,
                       themeVars>>

\* the histories that overlapping calls start from
RaceInputs ==
    {<<>>,
     <<EntryOf("bob", 1, 1), EntryOf("admin", 1, 2), EntryOf("admin", 2, 3)>>}

RaceInit ==
    /\ HistoryInit
    /\ history \in RaceInputs

\* trackConvertedUrl up to its first await: loadConvertedUrls has read the
\* file; the entry gets the time of this moment
TrackLoads ==
    \E r \in Requests, userId \in HistoryUsers, url \in CallUrls, now \in Now :
        /\ workers[r].pc = "idle"
        /\ workers' = [workers EXCEPT ![r] =
               [pc |-> "loaded", op |-> "track", userId |-> userId, url |-> url,
                convertedAt |-> now, urlsData |-> history]]
        /\ clock' = now
        /\ UNCHANGED <<history, lastCall, started, usersFile, sessions, inflight,
                       res, loggedIn, freshInstall>>
        /\ UNCHANGED <<escVars, fnVars, buildVars, collVars, extVars, libVars,
                       themeVars>>

\* DELETE /api/user/converted-urls up to its first await
DeleteLoads ==
    \E r \in Requests, userId \in HistoryUsers :
        /\ workers[r].pc = "idle"
        /\ workers' = [workers EXCEPT ![r] =
               [pc |-> "loaded", op |-> "clear", userId |-> userId, url |-> <<>>,
                convertedAt |-> clock, urlsData |-> history]]
        /\ UNCHANGED <<history, clock, lastCall, started, usersFile, sessions,
                       inflight, res, loggedIn, freshInstall>>
        /\ UNCHANGED <<escVars, fnVars, buildVars, collVars, extVars, libVars,
                       themeVars>>

\* saveConvertedUrls(urlsData): the file becomes what the call made of the
\* list that it had read
SaveConvertedUrls ==
    \E r \in Requests :
        LET w == workers[r]
            Other(entry) == entry.userId # w.userId
        IN  /\ w.pc = "loaded"
            /\ history' = IF w.op = "track"
                          THEN trackConvertedUrl(w.urlsData, w.userId, w.url,
                                                 w.convertedAt)
                          ELSE SelectSeq(w.urlsData, Other)
            /\ workers' = [workers EXCEPT ![r].pc = "done", ![r].urlsData = <<>>]
            /\ UNCHANGED <<clock, lastCall, started, usersFile, sessions, inflight,
                           res, loggedIn, freshInstall>>
            /\ UNCHANGED <<escVars, fnVars, buildVars, collVars, extVars, libVars,
                           themeVars>>

---------------------------------------------------------------------------
(* The EPUB library: epubs/<user id>/<filename> with a metadata file beside it *)

MaxSaves == 2
LibraryUsers == {"admin", "bob"}

\* a path is the sequence of its segments below the epubs directory; a segment
\* is a text whose pieces are ".", "/", an extension or a run of other characters
UpSegment == <<".", ".">>
UserDir(userId) == <<userId>>

\* filename.endsWith('.epub')
EndsWithEpub(name) == name # <<>> /\ name[Len(name)] = ".epub"

\* filename.includes('..')
IncludesDotDot(name) ==
    \E i \in 1..(Len(name) - 1) :
        name[i] = "." /\ name[i + 1] \in {".", ".epub", ".json"}

\* filename.includes('/')
IncludesSlash(name) == \E i \in DOMAIN name : name[i] = "/"

\* a check of the extension alone
InvalidFilenameByExtension(name) == ~EndsWithEpub(name)

\* !filename.endsWith('.epub') || filename.includes('..') || filename.includes('/')
InvalidFilename(name) ==
    ~EndsWithEpub(name) \/ IncludesDotDot(name) \/ IncludesSlash(name)

RECURSIVE SplitAtSlash(_)
\* the segments of a path string
SplitAtSlash(name) ==
    IF ~IncludesSlash(name) THEN <<name>>
    ELSE LET i == CHOOSE i \in DOMAIN name :
                      name[i] = "/" /\ \A j \in 1..(i - 1) : name[j] # "/"
         IN  <<SubSeq(name, 1, i - 1)>> \o SplitAtSlash(SubSeq(name, i + 1, Len(name)))

RECURSIVE Normalized(_, _)
\* path.normalize: "" and "." are dropped, ".." removes the segment before it
Normalized(done, segments) ==
    IF segments = <<>> THEN done
    ELSE LET seg == Head(segments)
         IN  IF seg = <<>> \/ seg = <<".">>
             THEN Normalized(done, Tail(segments))
             ELSE IF seg = UpSegment /\ done # <<>> /\ done[Len(done)] # UpSegment
             THEN Normalized(SubSeq(done, 1, Len(done) - 1), Tail(segments))
             ELSE Normalized(Append(done, seg), Tail(segments))

\* path.join(epubsDir, userId, filename), relative to epubsDir
pathJoin(userId, name) == Normalized(<<UserDir(userId)>>, SplitAtSlash(name))

\* filename.replace('.epub', '.json'): the first occurrence
replaceEpubByJson(name) ==
    IF \E i \in DOMAIN name : name[i] = ".epub"
    THEN LET i == CHOOSE i \in DOMAIN name :
                      name[i] = ".epub" /\ \A j \in 1..(i - 1) : name[j] # ".epub"
         IN  [name EXCEPT ![i] = ".json"]
    ELSE name

\* file.replace('.epub', '')
withoutEpub(name) ==
    IF \E i \in DOMAIN name : name[i] = ".epub"
    THEN LET i == CHOOSE i \in DOMAIN name :
                      name[i] = ".epub" /\ \A j \in 1..(i - 1) : name[j] # ".epub"
         IN  SubSeq(name, 1, i - 1) \o SubSeq(name, i + 1, Len(name))
    ELSE name

\* a file: the EPUB holds the decoded data, the metadata file the title and
\* the contents; mtime is the time of its last write
EpubFile(data, mtime) ==
    [kind |-> "epub", title |-> <<>>, contents |-> "", data |-> data, mtime |-> mtime]
MetadataFile(libTitle, contents, mtime) ==
    [kind |-> "json", title |-> libTitle, contents |-> contents, data |-> "",
     mtime |-> mtime]

NoFiles == [p \in {} |-> EpubFile("", 0)]

\* fs.writeFile: the file is created or replaced
WriteFile(dir, path, file) ==
    [p \in DOMAIN dir \cup {path} |-> IF p = path THEN file ELSE dir[p]]

\* fs.unlink
Unlink(dir, path) == [p \in DOMAIN dir \ {path} |-> dir[p]]

\* getUserEpubs before its sort: an entry for each .epub file of the
\* user's directory, with the metadata file's title and contents when there is one
UserEpubEntries(dir, userId) ==
    {LET name == p[2]
         metadataPath == <<UserDir(userId), replaceEpubByJson(name)>>
         known == metadataPath \in DOMAIN dir /\ dir[metadataPath].kind = "json"
     IN  [filename |-> name,
          title |-> IF known THEN dir[metadataPath].title ELSE withoutEpub(name),
          contents |-> IF known THEN dir[metadataPath].contents ELSE "",
          data |-> dir[p].data,
          modifiedAt |-> dir[p].mtime] :
     p \in {q \in DOMAIN dir : Len(q) = 2 /\ q[1] = UserDir(userId) /\ EndsWithEpub(q[2])}}

\* getUserEpubs: newest first
getUserEpubs(dir, userId) ==
    LET entries == UserEpubEntries(dir, userId)
        Rank(e) == Cardinality({d \in entries : d.modifiedAt > e.modifiedAt}) + 1
    IN  [i \in 1..Cardinality(entries) |-> CHOOSE e \in entries : Rank(e) = i]

\* the bodies of POST /api/epubs/save: title, contents, epubData (a data URL
\* whose part behind the comma decodes to data)
SaveBody(libTitle, contents, data) ==
    [title |-> libTitle, contents |-> contents, hasData |-> data # "",
     hasComma |-> data \notin {"", "nocomma"}, data |-> data]
SaveBodies ==
    {SaveBody(<<"a">>, "c1", "d1"),
     SaveBody(<<"a">>, "c2", "d2"),
     SaveBody(<<"a", "!">>, "c3", "d3"),
     SaveBody(<<"b">>, "c1", "d1"),
     SaveBody(<<"!">>, "c1", "d1"),
     SaveBody(<<>>, "c1", "d1"),
     SaveBody(<<"a">>, "c1", ""),
     SaveBody(<<"a">>, "c1", "nocomma")}

\* the :filename of a download or a delete
LibraryFilenames ==
    {<<"a", ".epub">>, <<"b", ".epub">>, <<".epub">>, <<"a">>, <<"a", ".json">>,
     <<".", ".epub">>,
     <<"bob", "/", "a", ".epub">>,
     <<".", ".", "/", "bob", "/", "a", ".epub">>,
     <<".", ".", "/", "admin", "/", "a", ".epub">>}

NoLibraryResponse ==
    [route |-> "none", user |-> "", name |-> <<>>, status |-> 0, touched |-> {},
     sent |-> "", epubs |-> <<>>]

LibraryIdle ==
    /\ epubsDir = NoFiles
    /\ libClock = 0
    /\ libRes = NoLibraryResponse

LibraryAnswer(route, userId, name, status) ==
    [NoLibraryResponse EXCEPT !.route = route, !.user = userId, !.name = name,
                              !.status = status]

\* POST /api/epubs/save
SaveEpub ==
    \E userId \in LibraryUsers \cup {""}, body \in SaveBodies :
        LET route == "POST /api/epubs/save"
            name == safeTitle(body.title) \o <<".epub">>
            epubPath == <<UserDir(userId), name>>
            metadataPath == <<UserDir(userId), replaceEpubByJson(name)>>
            now == libClock + 1
        IN  /\ libClock < MaxSaves
            /\ IF userId = ""
               THEN /\ libRes' = LibraryAnswer(route, userId, <<>>, 401)
                    /\ UNCHANGED <<epubsDir, libClock>>
               ELSE IF Falsy(Str(body.title)) \/ ~body.hasData
               THEN /\ libRes' = LibraryAnswer(route, userId, <<>>, 400)
                    /\ UNCHANGED <<epubsDir, libClock>>
               ELSE IF ~body.hasComma
               THEN /\ libRes' = LibraryAnswer(route, userId, <<>>, 500)
                    /\ UNCHANGED <<epubsDir, libClock>>
               ELSE /\ epubsDir' =
                           WriteFile(WriteFile(epubsDir, epubPath,
                                               EpubFile(body.data, now)),
                                     metadataPath,
                                     MetadataFile(body.title, body.contents, now))
                    /\ libClock' = now
                    /\ libRes' = [LibraryAnswer(route, userId, name, 200) EXCEPT
                                     !.touched = {epubPath, metadataPath}]
            /\ UNCHANGED notLibVars

\* GET /api/epubs
ListEpubs ==
    \E userId \in LibraryUsers \cup {""} :
        LET route == "GET /api/epubs"
            epubs == getUserEpubs(epubsDir, userId)
        IN  /\ libRes' =
                   IF userId = ""
                   THEN LibraryAnswer(route, userId, <<>>, 401)
                   ELSE [LibraryAnswer(route, userId, <<>>, 200) EXCEPT
                            !.epubs = epubs,
                            !.touched =
                                {<<UserDir(userId), epubs[i].filename>> :
                                     i \in DOMAIN epubs}]
            /\ UNCHANGED <<epubsDir, libClock>>
            /\ UNCHANGED notLibVars

\* GET /api/epubs/:filename
DownloadEpub ==
    \E userId \in LibraryUsers \cup {""}, name \in LibraryFilenames :
        LET route == "GET /api/epubs/:filename"
            epubPath == pathJoin(userId, name)
        IN  /\ libRes' =
                   IF userId = ""
                   THEN LibraryAnswer(route, userId, name, 401)
                   ELSE IF InvalidFilename(name)
                   THEN LibraryAnswer(route, userId, name, 400)
                   ELSE IF epubPath \notin DOMAIN epubsDir
                   THEN [LibraryAnswer(route, userId, name, 404) EXCEPT
                            !.touched = {epubPath}]
                   ELSE [LibraryAnswer(route, userId, name, 200) EXCEPT
                            !.touched = {epubPath},
                            !.sent = epubsDir[epubPath].data]
            /\ UNCHANGED <<epubsDir, libClock>>
            /\ UNCHANGED notLibVars

\* DELETE /api/epubs/:filename
DeleteEpub ==
    \E userId \in LibraryUsers \cup {""}, name \in LibraryFilenames :
        LET route == "DELETE /api/epubs/:filename"
            epubPath == pathJoin(userId, name)
            metadataPath == pathJoin(userId, replaceEpubByJson(name))
        IN  /\ IF userId = ""
               THEN /\ libRes' = LibraryAnswer(route, userId, name, 401)
                    /\ UNCHANGED epubsDir
               ELSE IF InvalidFilename(name)
               THEN /\ libRes' = LibraryAnswer(route, userId, name, 400)
                    /\ UNCHANGED epubsDir
               ELSE IF epubPath \notin DOMAIN epubsDir
               THEN /\ libRes' = [LibraryAnswer(route, userId, name, 500) EXCEPT
                                     !.touched = {epubPath}]
                    /\ UNCHANGED epubsDir
               ELSE /\ epubsDir' = Unlink(Unlink(epubsDir, epubPath), metadataPath)
                    /\ libRes' = [LibraryAnswer(route, userId, name, 200) EXCEPT
                                     !.touched = {epubPath, metadataPath}]
            /\ UNCHANGED libClock
            /\ UNCHANGED notLibVars

---------------------------------------------------------------------------
(* PUT /api/user/theme: the theme field of users.json and of the session *)

Themes == {"light", "dark", "sepia"}

\* req.body.theme: a theme, another string, or none
ThemeBodies == Themes \cup {"blue", "Light", "undefined"}

NoThemeSession == [id |-> "", theme |-> "undefined"]
NoThemeResponse ==
    [route |-> "none", client |-> "", user |-> "", theme |-> "undefined",
     status |-> 0, saved |-> FALSE]

\* the theme field of each user of users.json: the administrator of the
\* default file, with or without a second user whose record has no theme
ThemeFiles ==
    {[u \in {"admin"} |-> "light"],
     [u \in LibraryUsers |-> IF u = "admin" THEN "light" ELSE "undefined"]}

ThemeIdle ==
    /\ themeOf = [u \in {"admin"} |-> "light"]
    /\ themeSessions = [c \in Clients |-> NoThemeSession]
    /\ themeRes = NoThemeResponse

ThemeInit ==
    /\ themeOf \in ThemeFiles
    /\ themeSessions = [c \in Clients |-> NoThemeSession]
    /\ themeRes = NoThemeResponse

\* POST /api/auth/login: theme: user.theme || 'light'
ThemeLogin ==
    \E c \in Clients, u \in DOMAIN themeOf :
        /\ themeSessions' = [themeSessions EXCEPT ![c] =
               [id |-> u,
                theme |-> IF themeOf[u] = "undefined" THEN "light" ELSE themeOf[u]]]
        /\ themeRes' = [NoThemeResponse EXCEPT !.route = "POST /api/auth/login",
                            !.client = c, !.user = u, !.status = 200]
        /\ UNCHANGED themeOf
        /\ UNCHANGED notThemeVars

\* POST /api/auth/logout
ThemeLogout ==
    \E c \in Clients :
        /\ themeSessions' = [themeSessions EXCEPT ![c] = NoThemeSession]
        /\ themeRes' = [NoThemeResponse EXCEPT !.route = "POST /api/auth/logout",
                            !.client = c, !.status = 200]
        /\ UNCHANGED themeOf
        /\ UNCHANGED notThemeVars

\* PUT /api/user/theme; saved is what saveUsers returns, true when
\* fs.writeFile wrote users.json and false when it threw
PutTheme ==
    \E c \in Clients, theme \in ThemeBodies, saved \in BOOLEAN :
        LET route == "PUT /api/user/theme"
            session == themeSessions[c]
            answer(status) ==
                [NoThemeResponse EXCEPT !.route = route, !.client = c,
                     !.user = session.id, !.theme = theme, !.status = status]
        IN  IF session = NoThemeSession
            THEN /\ themeRes' = answer(401)
                 /\ UNCHANGED <<themeOf, themeSessions>>
                 /\ UNCHANGED notThemeVars
            ELSE IF theme \notin Themes
            THEN /\ themeRes' = answer(400)
                 /\ UNCHANGED <<themeOf, themeSessions>>
                 /\ UNCHANGED notThemeVars
            ELSE IF session.id \notin DOMAIN themeOf
            THEN /\ themeRes' = answer(404)
                 /\ UNCHANGED <<themeOf, themeSessions>>
                 /\ UNCHANGED notThemeVars
            ELSE /\ themeOf' = IF saved THEN [themeOf EXCEPT ![session.id] = theme]
                               ELSE themeOf
                 /\ themeSessions' = [themeSessions EXCEPT ![c].theme = theme]
                 /\ themeRes' = [answer(200) EXCEPT !.saved = saved]
                 /\ UNCHANGED notThemeVars

---------------------------------------------------------------------------
(* Specifications *)

EscapeIdle == text = Undefined /\ escFn = "none" /\ escOut = <<>>
FilenameIdle == filename = <<>> /\ fnFn = "none" /\ fnOut = <<>>
BuildIdle ==
    /\ articles = <<>> /\ title = Str(<<>>) /\ author = Str(<<>>)
    /\ description = Str(<<>>) /\ zip = <<>> /\ variant = "none" /\ outcome = "none"

CollectionIdle == CollectionInit
ServerIdle ==
    /\ started = FALSE /\ usersFile = NoFile /\ history = <<>>
    /\ sessions = [c \in Clients |-> NoUser]
    /\ inflight = [c \in Clients |-> NoRequest]
    /\ res = NoResponse
    /\ loggedIn = [c \in Clients |-> FALSE] /\ freshInstall = FALSE

RequestsIdle == ExtractInit /\ HistoryIdle /\ LibraryIdle /\ ThemeIdle

Init == BuildInit /\ EscapeIdle /\ FilenameIdle /\ CollectionIdle /\ ServerIdle /\ RequestsIdle

Next ==
    \/ GenerateEpub
    \/ GenerateCollectionEpub
    \/ GenerateCollectionEpubWithCover
    \/ GenerateCollectionEpubForApi

Spec == Init /\ [][Next]_vars

InitEscape == EscapeInit /\ FilenameIdle /\ BuildIdle /\ CollectionIdle /\ ServerIdle /\ RequestsIdle

NextEscape ==
    \/ EscapeXml
    \/ EscapeHtml
    \/ EscapeHtmlUnguarded

SpecEscape == InitEscape /\ [][NextEscape]_vars

InitFilename == FilenameInit /\ EscapeIdle /\ BuildIdle /\ CollectionIdle /\ ServerIdle /\ RequestsIdle

NextFilename ==
    \/ DownloadName
    \/ SaveName

SpecFilename == InitFilename /\ [][NextFilename]_vars

InitCollection == CollectionInit /\ EscapeIdle /\ FilenameIdle /\ BuildIdle /\ ServerIdle /\ RequestsIdle

NextCollection ==
    \/ HandleAddArticle
    \/ ExtractResolved
    \/ ExtractRejected
    \/ HandleBulkProcess
    \/ ProcessBulkUrls
    \/ RemoveArticle
    \/ HandleClearAll
    \/ DragEnd
    \/ HandleGenerateCover
    \/ HandleSaveCollection

SpecCollection == InitCollection /\ [][NextCollection]_vars

InitSettled == SettledInit /\ EscapeIdle /\ FilenameIdle /\ BuildIdle /\ ServerIdle /\ RequestsIdle

NextSettled ==
    \/ RemoveArticle
    \/ HandleClearAll
    \/ DragEnd
    \/ HandleGenerateCover
    \/ HandleSaveCollection

SpecSettled == InitSettled /\ [][NextSettled]_vars

InitServer == ServerInit /\ EscapeIdle /\ FilenameIdle /\ BuildIdle /\ CollectionIdle /\ RequestsIdle

NextServer ==
    \/ InitializeApp
    \/ Login
    \/ Logout
    \/ PutPreferences
    \/ PutPreferencesCompletes
    \/ PostExtract
    \/ PostGenerateEpubOfPage

SpecServer == InitServer /\ [][NextServer]_vars

InitApi == ApiInit /\ EscapeIdle /\ FilenameIdle /\ BuildIdle /\ CollectionIdle /\ RequestsIdle

NextApi ==
    \/ PostApiKey
    \/ PostGenerateEpub
    \/ GetStatus

SpecApi == InitApi /\ [][NextApi]_vars

NextPartial ==
    \/ PostGenerateEpubOfPages
    \/ GetStatus

SpecPartial == InitApi /\ [][NextPartial]_vars

NextKeys ==
    \/ PostApiKey
    \/ PutPreferencesApiKey
    \/ PutPreferencesCompletes
    \/ GetStatus

SpecKeys == InitApi /\ [][NextKeys]_vars

InitExtract ==
    /\ ExtractInit /\ HistoryIdle /\ LibraryIdle /\ ThemeIdle
    /\ EscapeIdle /\ FilenameIdle /\ BuildIdle /\ CollectionIdle /\ ServerIdle

NextExtract ==
    \/ ExtractBegin
    \/ ExtractAttempt
    \/ ExtractFailed

SpecExtract == InitExtract /\ [][NextExtract]_vars

InitHistory ==
    /\ HistoryInit /\ ExtractInit /\ LibraryIdle /\ ThemeIdle
    /\ EscapeIdle /\ FilenameIdle /\ BuildIdle /\ CollectionIdle

NextHistory ==
    \/ TrackConvertedUrl
    \/ DeleteConvertedUrls

SpecHistory == InitHistory /\ [][NextHistory]_vars

InitRaces ==
    /\ RaceInit /\ ExtractInit /\ LibraryIdle /\ ThemeIdle
    /\ EscapeIdle /\ FilenameIdle /\ BuildIdle /\ CollectionIdle

NextRaces ==
    \/ TrackLoads
    \/ DeleteLoads
    \/ SaveConvertedUrls

SpecRaces == InitRaces /\ [][NextRaces]_vars

InitLibrary ==
    /\ LibraryIdle /\ ThemeIdle /\ ExtractInit /\ HistoryIdle
    /\ EscapeIdle /\ FilenameIdle /\ BuildIdle /\ CollectionIdle /\ ServerIdle

NextLibrary ==
    \/ SaveEpub
    \/ ListEpubs
    \/ DownloadEpub
    \/ DeleteEpub

SpecLibrary == InitLibrary /\ [][NextLibrary]_vars

InitTheme ==
    /\ ThemeInit /\ LibraryIdle /\ ExtractInit /\ HistoryIdle
    /\ EscapeIdle /\ FilenameIdle /\ BuildIdle /\ CollectionIdle /\ ServerIdle

NextTheme ==
    \/ ThemeLogin
    \/ ThemeLogout
    \/ PutTheme

SpecTheme == InitTheme /\ [][NextTheme]_vars

---------------------------------------------------------------------------
(* The archive that a build returned *)

Built == outcome = "returned"
CollectionVariants == {"plain", "cover", "api"}

Entry(name) == zip[EntryIndex(zip, name)]
Doc(name) == Entry(name).doc
FileIndexes == {i \in DOMAIN zip : ~zip[i].dir}
FileNames == {zip[i].name : i \in FileIndexes}
OpfDoc == Doc("OEBPS/content.opf")
NcxDoc == Doc("OEBPS/toc.ncx")

\* the file that holds article n
ChapterFile(n) ==
    IF variant = "single" THEN "OEBPS/content.html" ELSE "OEBPS/" \o ChapterHref(n)

ChapterFiles == {"OEBPS/" \o ChapterHref(n) : n \in 1..Len(articles)}
BaseFiles == {"mimetype", "META-INF/container.xml", "OEBPS/content.opf", "OEBPS/toc.ncx"}
CoverFiles == {"OEBPS/cover.html", "OEBPS/toc.html"}

\* the escaping function of the builder that made the archive
Escaped(v) == IF variant = "api" THEN escapeXml(v) ELSE escapeHtml(v)

---------------------------------------------------------------------------
(* Claims *)

\* C1: a collection builder given an empty article list fails (throws) and
\* emits no archive entry.
C1_EmptyCollectionRejected ==
    (variant \in CollectionVariants /\ articles = <<>>)
        => (outcome = "thrown" /\ zip = <<>>)

\* C2: for every non-empty collection and every builder, the first entry of
\* the archive is the file mimetype, stored uncompressed, holding exactly
\* application/epub+zip.
C2_MimetypeFirst ==
    (Built /\ articles # <<>>)
        => /\ zip[1].name = "mimetype"
           /\ ~zip[1].dir
           /\ zip[1].compression = "STORE"
           /\ zip[1].doc = [kind |-> "mimetype", data |-> "application/epub+zip"]

C2_Witness ==
    /\ Built /\ variant = "api" /\ Len(articles) = 2
    /\ zip[1].name = "mimetype" /\ Len(zip) > 1

\* C3: the manifest has as many chapter items (items other than ncx, cover
\* and toc-page) as there are articles, and every idref of the spine names
\* exactly one manifest item.
C3_ManifestMatchesSpine ==
    Built =>
        LET m == OpfDoc.manifest
            sp == OpfDoc.spine
        IN  /\ Cardinality({i \in DOMAIN m : m[i].id \notin {"ncx", "cover", "toc-page"}})
                   = Len(articles)
            /\ \A j \in DOMAIN sp :
                   Cardinality({i \in DOMAIN m : m[i].id = sp[j]}) = 1

C3_Witness ==
    /\ Built /\ variant = "cover" /\ Len(articles) = 2
    /\ Len(OpfDoc.spine) = 4 /\ Len(OpfDoc.manifest) = 5

\* C4: the navPoints of toc.ncx have playOrder 1, 2, 3, ... in sequence;
\* there are articles.length of them without a cover and articles.length + 1
\* with a cover, where the first is the TOC page and chapter i follows at
\* playOrder i + 1.
C4_PlayOrder ==
    Built =>
        LET np == NcxDoc.navPoints
        IN  /\ \A k \in DOMAIN np : np[k].playOrder = k
            /\ IF variant = "cover"
               THEN /\ Len(np) = Len(articles) + 1
                    /\ np[1].src = "toc.html"
                    /\ \A i \in 1..Len(articles) :
                           \E k \in DOMAIN np :
                               np[k].src = ChapterHref(i) /\ np[k].playOrder = i + 1
               ELSE Len(np) = Len(articles)

C4_Witness ==
    /\ Built /\ variant = "cover" /\ Len(articles) = 2
    /\ NcxDoc.navPoints[3].playOrder = 3 /\ NcxDoc.navPoints[3].src = "chapter2.html"

\* C5: the spine of a cover build is cover, toc-page, chapter1..chapterN and
\* the spine of a plain build is chapter1..chapterN; a chapter file carries
\* a "Chapter N" label in the cover build and no label in any other build.
C5_Spine ==
    Built =>
        /\ variant = "cover" =>
               OpfDoc.spine = <<"cover", "toc-page">>
                                \o [i \in 1..Len(articles) |-> "chapter" \o ToString(i)]
        /\ variant \in {"plain", "api"} =>
               OpfDoc.spine = [i \in 1..Len(articles) |-> "chapter" \o ToString(i)]
        /\ \A n \in 1..Len(articles) :
               Doc(ChapterFile(n)).label =
                   IF variant = "cover" THEN <<"Chapter ", ToString(n)>> ELSE <<>>

C5_Witness ==
    /\ Built /\ variant = "cover" /\ Len(articles) = 2
    /\ OpfDoc.spine = <<"cover", "toc-page", "chapter1", "chapter2">>
    /\ Doc("OEBPS/chapter2.html").label = <<"Chapter ", "2">>

\* C6: chapter files follow the order of the articles: chapterN.html exists
\* for every N in 1..articles.length, comes after chapter(N-1).html in the
\* archive, has the escaped title of articles[N-1] (escaped by the builder's
\* escaping function) as h1 and the content of articles[N-1] as body.
C6_ChapterOrder ==
    (Built /\ variant \in CollectionVariants) =>
        \A n \in 1..Len(articles) :
            /\ HasEntry(zip, ChapterFile(n))
            /\ n > 1 => EntryIndex(zip, ChapterFile(n - 1)) < EntryIndex(zip, ChapterFile(n))
            /\ Doc(ChapterFile(n)).h1 = Escaped(articles[n].title)
            /\ Doc(ChapterFile(n)).body = articles[n].content

C6_Witness ==
    /\ Built /\ variant = "plain" /\ Len(articles) = 2
    /\ articles[1].title # articles[2].title
    /\ articles[1].content # articles[2].content
    /\ Doc("OEBPS/chapter2.html").h1 = <<"b", "&", "a", "m", "p", ";">>

\* C7 as stated: every build, the single-article build included, emits
\* exactly mimetype, META-INF/container.xml, OEBPS/content.opf, OEBPS/toc.ncx
\* and OEBPS/chapterN.html for N = 1..articles.length, plus OEBPS/cover.html
\* and OEBPS/toc.html in the cover build.
C7_ExactFilesAsStated ==
    Built =>
        FileNames = BaseFiles \cup ChapterFiles
                        \cup (IF variant = "cover" THEN CoverFiles ELSE {})

\* C7 amended: as above for the collection builds; the single-article build
\* emits OEBPS/content.html in place of OEBPS/chapter1.html.  No file name
\* occurs twice.
C7_ExactFiles ==
    Built =>
        /\ FileNames = BaseFiles
                \cup (IF variant = "single" THEN {"OEBPS/content.html"} ELSE ChapterFiles)
                \cup (IF variant = "cover" THEN CoverFiles ELSE {})
        /\ Cardinality(FileIndexes) = Cardinality(FileNames)

C7_Witness ==
    /\ Built /\ variant = "single"
    /\ "OEBPS/content.html" \in FileNames
    /\ "OEBPS/chapter1.html" \notin FileNames

\* C10: an article whose title and siteName are absent is built without a
\* throw, its chapter showing the title "Untitled Article" and the source
\* "unknown".
C10_AbsentTitleAndSite ==
    Built =>
        \A n \in 1..Len(articles) :
            (articles[n].title = Undefined /\ articles[n].siteName = Undefined)
                => /\ Doc(ChapterFile(n)).h1 = <<"Untitled Article">>
                   /\ Doc(ChapterFile(n)).meta[1] = <<"Source: ", "unknown">>

\* the XML entity of a character, or the character itself
XmlEntityOf(c) ==
    CASE c = "&" -> AMP
      [] c = "<" -> LT
      [] c = ">" -> GT
      [] c = "\"" -> QUOT
      [] c = "'" -> APOS
      [] OTHER -> <<c>>

RECURSIVE XmlEscaped(_)
XmlEscaped(s) == IF s = <<>> THEN <<>> ELSE XmlEntityOf(Head(s)) \o XmlEscaped(Tail(s))

StartsAt(s, i, e) == i + Len(e) - 1 <= Len(s) /\ SubSeq(s, i, i + Len(e) - 1) = e

\* C8: each escaping function (escapeXml of the server, escapeHtml of the
\* front end) returns the empty text for a null or non-string argument and
\* otherwise the argument with &, <, >, " and ' replaced by their entities:
\* the result holds none of <, >, ", ' and every & in it starts one of the
\* five entities.
C8_EscapeForXml ==
    escFn # "none" =>
        IF text.t # "string" THEN escOut = <<>>
        ELSE /\ escOut = XmlEscaped(text.s)
             /\ \A i \in DOMAIN escOut : escOut[i] \notin {"<", ">", "\"", "'"}
             /\ \A i \in DOMAIN escOut :
                    escOut[i] = "&" =>
                        \E e \in {AMP, LT, GT, QUOT, APOS} : StartsAt(escOut, i, e)

NameChars == LowerCase \cup UpperCase \cup Digits \cup {"_", "-"}

\* C9: the base name made from a title, by the download functions and by
\* /api/epubs/save, is never empty, is at most 50 characters long and holds
\* only characters of [A-Za-z0-9_-].
C9_SafeBaseName ==
    fnFn \in {"sanitizeFilename", "save"} =>
        /\ fnOut # <<>>
        /\ Len(fnOut) <= MaxFilenameLen
        /\ \A i \in DOMAIN fnOut : fnOut[i] \in NameChars

---------------------------------------------------------------------------
(* Two builds of the same arguments *)

\* every archive that the builder which made zip can return for the
\* arguments of this build: generateUUID() and new Date() are read anew
Rebuilds ==
    CASE variant = "single" ->
            {generateEpub(articles[1], u1, u2) : u1 \in UUIDs, u2 \in UUIDs}
      [] variant = "plain" ->
            {generateCollectionEpub(articles, title, author, u1, u2, d) :
                u1 \in UUIDs, u2 \in UUIDs, d \in Dates}
      [] variant = "cover" ->
            {generateCollectionEpubWithCover(articles, title, author, u1, u2, d, ld) :
                u1 \in UUIDs, u2 \in UUIDs, d \in Dates, ld \in LocaleDates}
      [] variant = "api" ->
            {generateCollectionEpubForApi(articles, title, author, description, u1, u2, d) :
                u1 \in UUIDs, u2 \in UUIDs, d \in Dates}

\* a document with dc:identifier and the build date (dc:date, and the
\* "Generated on" line of the cover page, which prints it) blanked
WithoutIdentifierAndDate(d) ==
    IF d.kind = "opf"
    THEN [f \in DOMAIN d |-> IF f \in {"identifier", "date"} THEN "" ELSE d[f]]
    ELSE IF d.kind = "cover" THEN [d EXCEPT !.generatedOn = ""]
    ELSE d

SameButIdentifierAndDate(z1, z2) ==
    /\ Len(z1) = Len(z2)
    /\ \A i \in DOMAIN z1 :
          /\ z1[i].name = z2[i].name
          /\ z1[i].dir = z2[i].dir
          /\ WithoutIdentifierAndDate(z1[i].doc) = WithoutIdentifierAndDate(z2[i].doc)

\* C11: another build by the same builder from the same non-empty articles, title,
\* author and description has the same file names and the same contents
\* as this one everywhere except in dc:identifier and the build date.
C11_RebuildDiffersInTwoFields ==
    (Built /\ articles # <<>>) => \A z \in Rebuilds : SameButIdentifierAndDate(zip, z)

---------------------------------------------------------------------------
(* Page estimate *)

\* the sum of the wordCount values of the articles that have one
WordsOfArticlesThatHaveOne(arts) ==
    LET RECURSIVE sum(_)
        sum(k) == IF k = 0 THEN 0
                  ELSE sum(k - 1) + (IF arts[k].wordCount.t = "number"
                                     THEN arts[k].wordCount.n ELSE 0)
    IN  sum(Len(arts))

CeilDiv(n, d) == (n + d - 1) \div d

\* C15: dtb:totalPageCount of a collection build is ceil(totalWords / 250),
\* totalWords being the sum of the wordCount values of the articles that
\* have one, and the archive holds one chapter file per article, with the
\* article's content as its body.
C15_PageCountFromWordCounts ==
    (Built /\ variant \in CollectionVariants /\ articles # <<>>)
        => /\ NcxDoc.totalPageCount =
                  CeilDiv(WordsOfArticlesThatHaveOne(articles), WordsPerPage)
           /\ \A n \in 1..Len(articles) :
                 /\ ChapterFile(n) \in FileNames
                 /\ Doc(ChapterFile(n)).body = articles[n].content

---------------------------------------------------------------------------
(* The collection tab *)

\* C12: the articles of this.articles have pairwise distinct url values.
C12_DistinctUrls ==
    \A i, j \in DOMAIN thisArticles :
        i # j => thisArticles[i].url # thisArticles[j].url

\* the entry of an archive
DocOf(z, name) == z[EntryIndex(z, name)].doc

\* reorderArticles(oldIndex, newIndex) as the claim states it
MovedOrUnchanged(as, bs, oldIndex, newIndex) ==
    IF oldIndex # newIndex /\ oldIndex < Len(as) /\ newIndex < Len(as)
    THEN /\ Len(bs) = Len(as)
         /\ bs[newIndex + 1] = as[oldIndex + 1]
         /\ SpliceOut(bs, newIndex) = SpliceOut(as, oldIndex)
    ELSE bs = as

\* chapter N of the file just built is the article at position N
ChapterNIsArticleN ==
    out.op = "handleGenerateCover" =>
        \A n \in 1..Len(thisArticles) :
            LET doc == DocOf(out.epub, "OEBPS/" \o ChapterHref(n))
            IN  /\ HasEntry(out.epub, "OEBPS/" \o ChapterHref(n))
                /\ doc.label = <<"Chapter ", ToString(n)>>
                /\ doc.h1 = escapeHtml(thisArticles[n].title)
                /\ doc.body = thisArticles[n].content

RECURSIVE NumberedTitles(_, _)
\* "{n}. {title}" of the articles from position n on, one after the other
NumberedTitles(as, n) ==
    IF n > Len(as) THEN <<>>
    ELSE <<ToString(n), ". ">> \o as[n].title.s \o NumberedTitles(as, n + 1)

RECURSIVE NumberedTitleLines(_, _)
\* the same, a line feed between two of them
NumberedTitleLines(as, n) ==
    IF n > Len(as) THEN <<>>
    ELSE <<ToString(n), ". ">> \o as[n].title.s
            \o (IF n < Len(as) THEN <<"\n">> ELSE <<>>)
            \o NumberedTitleLines(as, n + 1)

\* C14 as stated: the description of a saved collection is "{n}. {title}"
\* of every article in order, also for one article.
C14_DescriptionAsStated ==
    out.op = "handleSaveCollection" =>
        out.description = NumberedTitles(thisArticles, 1)

\* C14: the description of a saved collection of one article is that
\* article's title; of more articles it is the line "This collection
\* contains N articles:", an empty line, and the lines "{n}. {title}" of
\* the articles in order.
C14_Description ==
    out.op = "handleSaveCollection" =>
        out.description =
            IF Len(thisArticles) = 1 THEN thisArticles[1].title.s
            ELSE <<"This collection contains ", ToString(Len(thisArticles)),
                   " articles:\n\n">> \o NumberedTitleLines(thisArticles, 1)

C14_Witness ==
    /\ out.op = "handleSaveCollection"
    /\ Len(thisArticles) = 1
    /\ out.description = <<"b", "&">>

---------------------------------------------------------------------------
(* C16, C17: the routes under /api/v1 *)

ApiV1Routes == {"POST /api/v1/generate-epub", "GET /api/v1/status"}

\* the request carries a key, and users.json stores this key for a user
HoldsKey(file, apiKey) ==
    /\ apiKey # "undefined"
    /\ \E u \in DOMAIN loadUsers(file) :
           loadUsers(file)[u].preferences.apiKey = apiKey

\* C16: a request to a route under /api/v1 that carries no key, or a key
\* that users.json stores for no user, is answered 401; no page is fetched
\* for it, the history stays as it is, and no EPUB is built.
C16_ApiKeyRequired ==
    [][(res'.route \in ApiV1Routes /\ ~HoldsKey(usersFile, res'.apiKey))
          => /\ res'.status = 401
             /\ res'.fetched = <<>>
             /\ ~res'.epub
             /\ history' = history]_vars

\* a key that no user holds came with a body that would have passed, while
\* a user held another key
C16_Witness ==
    /\ res.route = "POST /api/v1/generate-epub"
    /\ res.apiKey = "lp_0"
    /\ validateUrls(res.urls) = 0
    /\ HoldsKey(usersFile, "lp_2")
    /\ res.status = 401

\* urls is no array, or an empty one, or one of more than 50 strings, or
\* one that holds a string that does not parse as a URL
BadUrls(urls) ==
    \/ urls.kind # "array"
    \/ Len(urls.items) = 0
    \/ Len(urls.items) > 50
    \/ \E i \in DOMAIN urls.items : ~ParsesAsUrl(urls.items[i])

\* C17: POST /api/v1/generate-epub with a stored key answers 400 when urls
\* is missing, no array, empty, longer than 50 or holds an invalid URL, and
\* then nothing is fetched, the history is unchanged and no EPUB is built;
\* a list of 1 to 50 valid URLs is not answered 400, and its pages are
\* fetched.
C17_UrlsValidated ==
    [][(res'.route = "POST /api/v1/generate-epub" /\ HoldsKey(usersFile, res'.apiKey))
          => IF BadUrls(res'.urls)
             THEN /\ res'.status = 400
                  /\ res'.fetched = <<>>
                  /\ ~res'.epub
                  /\ history' = history
             ELSE /\ res'.status \in {200, 422}
                  /\ res'.fetched = res'.urls.items]_vars

\* 51 valid URLs were refused, with a history that could have changed
C17_Witness ==
    /\ res.route = "POST /api/v1/generate-epub"
    /\ res.user = "admin"
    /\ Len(res.urls.items) = MaxUrlsPerRequest + 1
    /\ \A i \in DOMAIN res.urls.items : ParsesAsUrl(res.urls.items[i])
    /\ res.status = 400
    /\ loadUsers(usersFile)["admin"].preferences.trackUrls = "true"

---------------------------------------------------------------------------
(* C18, C19, C20: accounts, sessions and the tracking preference *)

\* C18: after initializeApp has found no users.json, no login succeeds.
\* (server.js has no route that creates an account, so nothing ends the
\* claim's "until".)
C18_NoDefaultCredentials ==
    freshInstall => ~(res.route = "POST /api/auth/login" /\ res.status = 200)

\* C19: a request to a route behind requireAuth whose client has not logged
\* in, or has logged out since its last login, is answered 401, and neither
\* users.json nor the history changes.
C19_SessionGate ==
    [][(res'.gate = "requireAuth" /\ res'.step = "request"
          /\ ~loggedIn[res'.client])
          => /\ res'.status = 401
             /\ usersFile' = usersFile
             /\ history' = history]_vars

\* C20: while users.json stores trackUrls false for a user, no request of
\* this user to /api/extract or /api/v1/generate-epub changes the history.
C20_TrackingOff ==
    [][(/\ res'.route \in {"POST /api/extract", "POST /api/v1/generate-epub"}
        /\ res'.user \in DOMAIN loadUsers(usersFile)
        /\ loadUsers(usersFile)[res'.user].preferences.trackUrls = "false")
          => history' = history]_vars

---------------------------------------------------------------------------
(* C21: the key that authenticates *)

\* C21: the user that a key authenticates as changes only by an answered
\* POST /api/user/api-key, and then only for the key that this request
\* issued and the key that it replaced.
C21_KeysOnlyIssued ==
    [][\A apiKey \in RequestKeys :
          requireApiKey(usersFile', apiKey) # requireApiKey(usersFile, apiKey)
             => /\ res'.route = "POST /api/user/api-key"
                /\ res'.status = 200
                /\ apiKey \in ApiKeys]_vars

---------------------------------------------------------------------------
(* C22, C28: the fallback over the user agents, and the answer of          *)
(* POST /api/extract                                                       *)

\* C22: the fetches of a request are made with the user agents in their
\* order, at most five; a fetch follows another only when that one did not
\* give an article; an article ends the handler with the answer 200 for the
\* pass that gave it; the answer 500 is sent only after five fetches
\* without article, with the message of the fifth.
C22_LinearFallback ==
    LET n == Len(attempts)
    IN  /\ n <= 5
        /\ \A k \in 1..n : attempts[k].userAgent = userAgents[k]
        /\ \A k \in 1..(n - 1) : attempts[k].outcome # "ok"
        /\ (n > 0 /\ attempts[n].outcome = "ok")
              => /\ extractPc = "ended"
                 /\ responses = <<[status |-> 200, userAgent |-> userAgents[n],
                                   message |-> ""]>>
        /\ \A r \in 1..Len(responses) :
              /\ responses[r].status = 200 => (n > 0 /\ attempts[n].outcome = "ok")
              /\ (responses[r].status = 500 /\ n > 0)
                    => /\ n = 5
                       /\ attempts[5].outcome # "ok"
                       /\ responses[r].message = MessageOf(attempts[5].outcome)
        /\ (extractPc = "ended" /\ n = 5 /\ attempts[5].outcome # "ok")
              => /\ Len(responses) = 1
                 /\ responses[1].status = 500

\* four passes met 403 and 404 in turn, the fifth met 403: the answer is
\* 500 with the message of the fifth
C22_Witness ==
    /\ Len(attempts) = 5
    /\ attempts[1].outcome = "403"
    /\ attempts[2].outcome = "404"
    /\ attempts[5].outcome = "403"
    /\ responses = <<[status |-> 500, userAgent |-> "", message |-> "HTTP 403"]>>

\* C28: when the handler of an authenticated POST /api/extract with a url
\* has ended, exactly one response has been sent.
C28_OneResponse ==
    (extractPc = "ended" /\ extractUrl # <<>>) => Len(responses) = 1

---------------------------------------------------------------------------
(* C23: the history after calls of trackConvertedUrl *)

EntriesOf(urls, userId) == {e \in {urls[i] : i \in DOMAIN urls} : e.userId = userId}

OnePerPair ==
    Cardinality({<<history[i].userId, history[i].url>> : i \in DOMAIN history})
        = Len(history)

\* what a call of trackConvertedUrl(userId, url) at the time convertedAt has
\* made of the history urls
TrackedAsStated(urls, after, userId, url, convertedAt) ==
    LET new == [userId |-> userId, url |-> url, convertedAt |-> convertedAt]
        candidates == {e \in EntriesOf(urls, userId) : e.url # url} \cup {new}
        kept == EntriesOf(after, userId)
        OfOthers(entry) == entry.userId # userId
    IN  /\ new \in kept
        /\ kept \subseteq candidates
        /\ Cardinality(kept) = IF Cardinality(candidates) > 1000
                               THEN 1000 ELSE Cardinality(candidates)
        /\ \A d \in candidates \ kept : \A k \in kept : k.convertedAt >= d.convertedAt
        /\ SelectSeq(after, OfOthers) = SelectSeq(urls, OfOthers)

\* C23: the history holds one entry per user and URL and at most 1000
\* entries per user; a call of trackConvertedUrl leaves the entry of its
\* conversion, keeps of the user's other entries the newest, as many as
\* make 1000 with the new one, and leaves the entries of the other users
\* as they were, in their order.
C23_HistoryKept ==
    /\ [](OnePerPair /\ \A u \in HistoryUsers : Cardinality(EntriesOf(history, u)) <= 1000)
    /\ [][(lastCall'.n = lastCall.n + 1 /\ lastCall'.op = "track")
             => TrackedAsStated(history, history', lastCall'.userId, lastCall'.url,
                                lastCall'.convertedAt)]_vars

\* the administrator's 1001st URL pushed out the oldest of the
\* administrator's entries and left the entry that bob has for the same URL
C23_Witness ==
    /\ lastCall.op = "track" /\ lastCall.userId = "admin"
    /\ lastCall.url = NumberedUrl(MaxEntriesPerUser + 2)
    /\ Cardinality(EntriesOf(history, "admin")) = MaxEntriesPerUser
    /\ EntryOf("admin", 1, 1) \notin EntriesOf(history, "admin")
    /\ EntryOf("admin", 3, 3) \in EntriesOf(history, "admin")
    /\ EntryOf("bob", 1, 2) \in EntriesOf(history, "bob")

---------------------------------------------------------------------------
(* Partial failure of POST /api/v1/generate-epub *)

\* the URLs of the request that are not in the errors of the response
SucceededUrls ==
    LET Succeeded(url) == \A k \in DOMAIN res.errors : res.errors[k] # url
    IN  SelectSeq(res.urls.items, Succeeded)

\* the chapter files of the returned EPUB, in the order of the archive
ChaptersOfFile ==
    LET IsChapter(e) == e.doc.kind = "chapter"
    IN  SelectSeq(res.file, IsChapter)

\* C24: the chapters of the EPUB returned by POST /api/v1/generate-epub are
\* chapter1.html .. chapterN.html for the N URLs whose extraction succeeded, in
\* the order of the request, in the archive and in the spine; when no URL was
\* extracted the answer is 422 and no EPUB is built
C24_PartialFailure ==
    (res.route = "POST /api/v1/generate-epub" /\ res.status \notin {400, 401}) =>
        IF SucceededUrls = <<>>
        THEN res.status = 422 /\ res.file = <<>> /\ ~res.epub
        ELSE /\ res.status = 200 /\ res.epub
             /\ Len(ChaptersOfFile) = Len(SucceededUrls)
             /\ \A k \in DOMAIN SucceededUrls :
                    /\ ChaptersOfFile[k].name = "OEBPS/" \o ChapterHref(k)
                    /\ ChaptersOfFile[k].doc.meta[2] =
                           <<"URL: ">> \o escapeXml(Str(SucceededUrls[k]))
             /\ DocOf(res.file, "OEBPS/content.opf").spine =
                    [k \in DOMAIN SucceededUrls |-> ChapterId(k)]

C24_Witness ==
    /\ res.route = "POST /api/v1/generate-epub"
    /\ res.status = 200
    /\ res.urls.items = <<PageU, PageV, PageW>>
    /\ res.errors = <<PageV>>
    /\ Len(ChaptersOfFile) = 2

---------------------------------------------------------------------------
(* The library: own directory only, saves and earlier saves, the theme *)

RefusedName(name) ==
    \/ name = <<>> \/ name[Len(name)] # ".epub"
    \/ IncludesDotDot(name)
    \/ \E i \in DOMAIN name : name[i] = "/"

InOwnDirectory(path, userId) == Len(path) = 2 /\ path[1] = UserDir(userId)

FileRoutes == {"GET /api/epubs/:filename", "DELETE /api/epubs/:filename"}

C26_ThemeStored ==
    (themeRes.route = "PUT /api/user/theme" /\ themeRes.status = 200) =>
        /\ themeOf[themeRes.user] = themeRes.theme
        /\ themeSessions[themeRes.client].theme = themeRes.theme

\* C27: a successful save leaves every EPUB that the user's library listed
\* before it listed afterwards, with the title, contents and data it had
C27_SaveKeepsEarlier ==
    [][(libRes'.route = "POST /api/epubs/save" /\ libRes'.status = 200) =>
           \A e \in UserEpubEntries(epubsDir, libRes'.user) :
               \E d \in UserEpubEntries(epubsDir', libRes'.user) :
                   /\ d.filename = e.filename
                   /\ d.title = e.title
                   /\ d.contents = e.contents
                   /\ d.data = e.data]_vars

---------------------------------------------------------------------------
(* Overlapping updates of the history *)

\* the call of request r tracked a conversion that no other call cleared
\* or tracked again
StandingConversion(r) ==
    /\ workers[r].pc = "done" /\ workers[r].op = "track"
    /\ \A q \in Requests \ {r} :
           /\ ~(workers[q].op = "clear" /\ workers[q].userId = workers[r].userId)
           /\ ~(/\ workers[q].op = "track"
                /\ workers[q].userId = workers[r].userId
                /\ workers[q].url = workers[r].url)

\* C29: once the calls have written, the history holds the entry of every
\* tracked conversion that no other call cleared or replaced
C29_NoLostUpdate ==
    (\A q \in Requests : workers[q].pc \in {"idle", "done"}) =>
        \A r \in Requests :
            StandingConversion(r) =>
                \E i \in DOMAIN history :
                    history[i] = [userId |-> workers[r].userId,
                                  url |-> workers[r].url,
                                  convertedAt |-> workers[r].convertedAt]

---------------------------------------------------------------------------
(* The order of this.articles and of the items shown *)

\* the ids of the items shown as extracted, in the order of the container
SuccessItemIds ==
    LET IsSuccess(item) == item.class = "success"
        shown == SelectSeq(articlesContainer, IsSuccess)
    IN  [i \in DOMAIN shown |-> shown[i].id]

\* C30: the i-th item shown as extracted is the item of this.articles[i]
C30_SameOrder ==
    SuccessItemIds = [i \in DOMAIN thisArticles |-> thisArticles[i].id]

=============================================================================
